---- MODULE Spec2Model ----
(***************************************************************************)
(* Technology-signal-to-skill inference and confidence scoring pipeline of *)
(* the Topcoder GitHub skills import CLI: whole-word matching, technology  *)
(* extraction, evidence collection, scoring and final ranking.             *)
(*                                                                         *)
(* Strings are sequences of one-character strings, indexed from 1 as TLA+  *)
(* sequences are; the code's 0-based positions are kept in the variables   *)
(* and shifted by one only where a character is read.                      *)
(***************************************************************************)
EXTENDS Integers, Sequences, FiniteSets, TLC

VARIABLES
  \* isWholeWordMatch (src/src/utils/string-utils.ts)
  text, word, index, wwIter, wwPc, wwResult,
  \* getTopScoredSkills (src/src/utils/rate-limiter.ts)
  topSkills, topLimit, topThreshold, topResult, topPc,
  \* collectEvidence (src/unnamed/part_009)
  evTerms, evData, evMax, evLimits, evSub, evResult, evPc,
  \* ScoringEngine.scoreSkills, then getTopScoredSkills
  scMatched, scData, scConfig, scScored, scTop, scPc,
  \* extractAllTechnologies (src/src/github/scraper.ts)
  exData, exSkillNames, exTechCounts, exAt, exPc,
  \* SkillMatcher.matchTechnologies (src/unnamed/part_006) over
  \* TopcoderSkillsAPI (src/src/topcoder/skills-api.ts)
  mtTechCounts, mtCatalog, mtFailing, mtAt, mtSkillScores, mtSkillCache,
  mtLookups, mtInferred, mtInferScores, mtInferAt, mtResult, mtPc,
  \* loadSkillsConfig and its section getters (src/src/topcoder/skill-matcher.ts)
  cfgCustomPath, cfgFiles, cachedConfig, cfgNextId, cfgPrev, cfgLast,
  \* GitHubScraper.scrape (src/src/github/scraper.ts) over the saved progress
  scrListing, scrOrgs, scrMaxRepos, scrProgress, scrRun, scrRuns, scrLog, scrPc,
  \* GitHubOAuth.pollForToken (src/unnamed/part_010)
  oaNow, oaExpiresAt, oaInterval, oaLast, oaError, oaPc

wwVars == <<text, word, index, wwIter, wwPc, wwResult>>

topVars == <<topSkills, topLimit, topThreshold, topResult, topPc>>

evVars == <<evTerms, evData, evMax, evLimits, evSub, evResult, evPc>>

scVars == <<scMatched, scData, scConfig, scScored, scTop, scPc>>

exVars == <<exData, exSkillNames, exTechCounts, exAt, exPc>>

mtVars ==
  <<mtTechCounts, mtCatalog, mtFailing, mtAt, mtSkillScores, mtSkillCache,
    mtLookups, mtInferred, mtInferScores, mtInferAt, mtResult, mtPc>>

cfgVars == <<cfgCustomPath, cfgFiles, cachedConfig, cfgNextId, cfgPrev, cfgLast>>

scrVars == <<scrListing, scrOrgs, scrMaxRepos, scrProgress, scrRun, scrRuns, scrLog, scrPc>>

oaVars == <<oaNow, oaExpiresAt, oaInterval, oaLast, oaError, oaPc>>

vars == <<wwVars, topVars, evVars, scVars, exVars, mtVars, cfgVars, scrVars, oaVars>>

\* What each component leaves alone: the variables of the other components
wwOthers == <<topVars, evVars, scVars, exVars, mtVars, cfgVars, scrVars, oaVars>>

topOthers == <<wwVars, evVars, scVars, exVars, mtVars, cfgVars, scrVars, oaVars>>

evOthers == <<wwVars, topVars, scVars, exVars, mtVars, cfgVars, scrVars, oaVars>>

scOthers == <<wwVars, topVars, evVars, exVars, mtVars, cfgVars, scrVars, oaVars>>

exOthers == <<wwVars, topVars, evVars, scVars, mtVars, cfgVars, scrVars, oaVars>>

mtOthers == <<wwVars, topVars, evVars, scVars, exVars, cfgVars, scrVars, oaVars>>

cfgOthers == <<wwVars, topVars, evVars, scVars, exVars, mtVars, scrVars, oaVars>>

scrOthers == <<wwVars, topVars, evVars, scVars, exVars, mtVars, cfgVars, oaVars>>

oaOthers == <<wwVars, topVars, evVars, scVars, exVars, mtVars, cfgVars, scrVars>>

----------------------------------------------------------------------------
(* Generic helpers *)

Range(s) == {s[i] : i \in DOMAIN s}

Min(a, b) == IF a < b THEN a ELSE b

\* All sequences over S of length at most n.
SeqsUpTo(S, n) == UNION {[1..k -> S] : k \in 0..n}

\* s.slice(0, n) for n >= 0
Take(s, n) == SubSeq(s, 1, Min(n, Len(s)))

----------------------------------------------------------------------------
(* Sample strings of the activity corpus and of config/constants.json *)

\* the strings of the sample records, configuration entries and terms
Str ==
  [
   javaScript |-> <<"J", "a", "v", "a", "S", "c", "r", "i", "p", "t">>,
   typeScript |-> <<"T", "y", "p", "e", "S", "c", "r", "i", "p", "t">>,
   javaLang |-> <<"J", "a", "v", "a">>,
   react |-> <<"r", "e", "a", "c", "t">>,
   reactJs |-> <<"r", "e", "a", "c", "t", ".", "j", "s">>,
   nodejs |-> <<"n", "o", "d", "e", "j", "s">>,
   docker |-> <<"D", "o", "c", "k", "e", "r">>,
   js |-> <<"j", "s">>,
   ts |-> <<"t", "s">>,
   javaTopic |-> <<"j", "a", "v", "a">>,
   extTs |-> <<".", "t", "s">>,
   extJs |-> <<".", "j", "s">>,
   extJsx |-> <<".", "j", "s", "x">>,
   extJava |-> <<".", "j", "a", "v", "a">>,
   dockerfile |-> <<"D", "o", "c", "k", "e", "r", "f", "i", "l", "e">>,
   packageJson |-> <<"p", "a", "c", "k", "a", "g", "e", ".", "j", "s", "o", "n">>,
   nodeJsTech |-> <<"N", "o", "d", "e", ".", "j", "s">>,
   readmeReact |-> <<"u", "s", "e", "s", " ", "r", "e", "a", "c", "t">>,
   msgReactHook |-> <<"A", "d", "d", " ", "R", "e", "a", "c", "t", " ", "h", "o", "o", "k">>,
   msgFixJs |-> <<"f", "i", "x", " ", "j", "a", "v", "a", "s", "c", "r", "i", "p", "t">>,
   msgReactFix |-> <<"r", "e", "a", "c", "t", " ", "f", "i", "x">>,
   fileAppJsx |-> <<"s", "r", "c", "/", "A", "p", "p", ".", "j", "s", "x">>,
   fileMainTs |-> <<"m", "a", "i", "n", ".", "t", "s">>,
   prAddHooks |-> <<"A", "d", "d", " ", "R", "e", "a", "c", "t", " ", "h", "o", "o", "k", "s">>,
   prUsesReact |-> <<"u", "s", "e", "s", " ", "r", "e", "a", "c", "t">>,
   prUpdate |-> <<"U", "p", "d", "a", "t", "e", " ", "R", "e", "a", "c", "t">>,
   prReactive |-> <<"r", "e", "a", "c", "t", "i", "v", "e", " ", "u", "i">>,
   prJavaFix |-> <<"j", "a", "v", "a", " ", "f", "i", "x">>,
   reactName |-> <<"R", "e", "a", "c", "t">>,
   hook |-> <<"h", "o", "o", "k">>,
   component |-> <<"c", "o", "m", "p", "o", "n", "e", "n", "t">>,
   container |-> <<"c", "o", "n", "t", "a", "i", "n", "e", "r">>,
   fix |-> <<"f", "i", "x">>,
   fixed |-> <<"f", "i", "x", "e", "d">>,
   bug |-> <<"b", "u", "g">>,
   ui |-> <<"u", "i">>,
   bugFix |-> <<"B", "u", "g", " ", "F", "i", "x">>,
   frontend |-> <<"F", "r", "o", "n", "t", "e", "n", "d">>,
   extJson |-> <<".", "j", "s", "o", "n">>,
   json |-> <<"J", "S", "O", "N">>,
   extDockerfile |-> <<".", "d", "o", "c", "k", "e", "r", "f", "i", "l", "e">>,
   tools |-> <<"t", "o", "o", "l", "s">>,
   javascript |-> <<"j", "a", "v", "a", "s", "c", "r", "i", "p", "t">>,
   iLoveJava |-> <<"i", " ", "l", "o", "v", "e", " ", "j", "a", "v", "a", "!">>,
   py |-> <<"p", "y">>,
   python |-> <<"p", "y", "t", "h", "o", "n">>,
   rb |-> <<"r", "b">>,
   ruby |-> <<"r", "u", "b", "y">>,
   jsUpper |-> <<"J", "S">>,
   reactjs |-> <<"r", "e", "a", "c", "t", "j", "s">>,
   reactJsName |-> <<"R", "e", "a", "c", "t", ".", "j", "s">>,
   mysql |-> <<"m", "y", "s", "q", "l">>,
   sql |-> <<"S", "Q", "L">>,
   mySqlServer |-> <<"M", "y", "S", "Q", "L", " ", "S", "e", "r", "v", "e", "r">>,
   a |-> <<"a">>,
   aName |-> <<"A">>
  ]

----------------------------------------------------------------------------
(* Characters: the printable ASCII range, position i holds code 31 + i.     *)
(* Code 96 (the grave accent, which a TLA+ string cannot hold) is kept as  *)
(* a placeholder so that the positions stay the character codes.           *)

Ascii ==
  <<
     " ", "!", "\"", "#", "$", "%", "&", "'", "(", ")", "*", "+", ",", "-", ".", "/",
     "0", "1", "2", "3", "4", "5", "6", "7", "8", "9", ":", ";", "<", "=", ">", "?",
     "@", "A", "B", "C", "D", "E", "F", "G", "H", "I", "J", "K", "L", "M", "N", "O",
     "P", "Q", "R", "S", "T", "U", "V", "W", "X", "Y", "Z", "[", "\\", "]", "^", "_",
     "grave", "a", "b", "c", "d", "e", "f", "g", "h", "i", "j", "k", "l", "m", "n", "o",
     "p", "q", "r", "s", "t", "u", "v", "w", "x", "y", "z", "{", "|", "}", "~"
  >>

\* String.prototype.charCodeAt(0) of a one-character string
CharCodeAt == [c \in Range(Ascii) |-> 31 + CHOOSE i \in DOMAIN Ascii : Ascii[i] = c]

\* String.prototype.toLowerCase on one character: A-Z (65-90) map to a-z
LowerChar == [c \in Range(Ascii) |->
                IF CharCodeAt[c] >= 65 /\ CharCodeAt[c] <= 90
                  THEN Ascii[CharCodeAt[c] + 32 - 31]
                  ELSE c]

\* String.prototype.toLowerCase
ToLowerCase(s) == [i \in DOMAIN s |-> LowerChar[s[i]]]

\* String.prototype.indexOf(w, from), 0-based: the first position >= from at
\* which w occurs in t, or -1. An empty w is found at min(from, t.length).
IndexOf(t, w, from) ==
  IF Len(w) = 0
    THEN Min(from, Len(t))
    ELSE LET hits == {k \in from..(Len(t) - Len(w)) :
                        SubSeq(t, k + 1, k + Len(w)) = w}
         IN IF hits = {} THEN -1
            ELSE CHOOSE k \in hits : \A j \in hits : k <= j

\* String.prototype.charAt(i), 0-based
CharAt(t, i) == t[i + 1]

----------------------------------------------------------------------------
(* isWholeWordMatch: src/src/utils/string-utils.ts *)

IsAlphanumeric(char) ==
  LET code == CharCodeAt[char]
  IN \/ (code >= 48 /\ code <= 57)
     \/ (code >= 65 /\ code <= 90)
     \/ (code >= 97 /\ code <= 122)

IsWordBoundaryOnlySpace(char) == char = " "

IsWordBoundary(char) == ~IsAlphanumeric(char)

\* charBefore / charAfter of the occurrence found at position idx
CharBefore(t, idx) == IF idx > 0 THEN CharAt(t, idx - 1) ELSE " "

CharAfter(t, w, idx) ==
  IF idx + Len(w) < Len(t) THEN CharAt(t, idx + Len(w)) ELSE " "

\* boundaryBefore && boundaryAfter
BoundedOccurrence(t, w, idx) ==
  IsWordBoundary(CharBefore(t, idx)) /\ IsWordBoundary(CharAfter(t, w, idx))

\* The function run to completion, as the callers use it. The loop visits the
\* occurrences in increasing position; it returns at the first one that has
\* both boundaries, and returns false when indexOf finds no further one.
\* n bounds the unrolling: an occurrence advances the position by at least 1.
RECURSIVE WholeWordFrom(_, _, _, _)
WholeWordFrom(t, w, from, n) ==
  LET idx == IndexOf(t, w, from)
  IN IF idx = -1 THEN FALSE
     ELSE IF BoundedOccurrence(t, w, idx) THEN TRUE
     ELSE IF n = 0 THEN FALSE
     ELSE WholeWordFrom(t, w, idx + 1, n - 1)

IsWholeWordMatch(t, w) == WholeWordFrom(t, w, 0, Len(t) + 1)

\* Bounds of the matcher's inputs
MaxTextLen == 4

\* iterations followed beyond Len(text) + 1, the most that distinct
\* positions allow
MaxExtraIterations == 2

MaxWordLen == 2

WWInputs ==
  LET alphabet == {"a", "b", "!"}
  IN (SeqsUpTo(alphabet, MaxTextLen) \X SeqsUpTo(alphabet, MaxWordLen))
       \cup {<<Str.javascript, Str.javaTopic>>, <<Str.iLoveJava, Str.javaTopic>>,
             <<Str.javaTopic, Str.javaTopic>>}

\* while ((index = text.indexOf(word, index)) !== -1) { ... return true }
WWReturnTrue ==
  /\ wwPc = "loop"
  /\ LET idx == IndexOf(text, word, index)
     IN /\ idx # -1
        /\ BoundedOccurrence(text, word, idx)
        /\ index' = idx
        /\ wwIter' = wwIter + 1
        /\ wwResult' = TRUE
        /\ wwPc' = "done"
  /\ UNCHANGED <<text, word, wwOthers>>

\* while (...) { ... index++ }
WWAdvance ==
  /\ wwPc = "loop"
  /\ wwIter <= Len(text) + MaxExtraIterations
  /\ LET idx == IndexOf(text, word, index)
     IN /\ idx # -1
        /\ ~BoundedOccurrence(text, word, idx)
        /\ index' = idx + 1
        /\ wwIter' = wwIter + 1
  /\ UNCHANGED <<text, word, wwPc, wwResult, wwOthers>>

\* the loop condition fails: return false
WWReturnFalse ==
  /\ wwPc = "loop"
  /\ IndexOf(text, word, index) = -1
  /\ index' = -1
  /\ wwResult' = FALSE
  /\ wwPc' = "done"
  /\ UNCHANGED <<text, word, wwIter, wwOthers>>

WWNext == WWReturnTrue \/ WWAdvance \/ WWReturnFalse

\* The matcher at rest, while another component runs
WWIdle ==
  /\ text = <<>>
  /\ word = <<>>
  /\ index = 0
  /\ wwIter = 0
  /\ wwPc = "idle"
  /\ wwResult = FALSE

\* An occurrence of w in t at 0-based position i whose neighbours are both a
\* non-alphanumeric character or the end of the text.
HasBoundedOccurrenceFrom(t, w, from) ==
  \E i \in from..(Len(t) - Len(w)) :
    /\ SubSeq(t, i + 1, i + Len(w)) = w
    /\ (i = 0 \/ ~IsAlphanumeric(t[i]))
    /\ (i + Len(w) = Len(t) \/ ~IsAlphanumeric(t[i + Len(w) + 1]))

\* C9: isWholeWordMatch(text, word) returns true exactly when some occurrence
\* of word in text (any one, not only the first) lies between non-alphanumeric
\* characters or the ends of the text: a returned value equals the existence
\* of such an occurrence, the scan never moves past one, and the three named
\* examples give false, true, true.
C9_WholeWordIffBoundedOccurrence ==
  /\ wwPc = "done" => (wwResult <=> HasBoundedOccurrenceFrom(text, word, 0))
  /\ (wwPc = "loop" /\ HasBoundedOccurrenceFrom(text, word, 0))
       => HasBoundedOccurrenceFrom(text, word, index)
  /\ (wwPc = "done" /\ text = Str.javascript /\ word = Str.javaTopic) => ~wwResult
  /\ (wwPc = "done" /\ text = Str.iLoveJava /\ word = Str.javaTopic) => wwResult
  /\ (wwPc = "done" /\ text = Str.javaTopic /\ word = Str.javaTopic) => wwResult

\* C9 witness: true was returned for an occurrence that is not the first one
\* (the first occurrence failed the boundary test).
C9_Witness ==
  /\ wwPc = "done"
  /\ wwResult
  /\ Len(word) > 0
  /\ IndexOf(text, word, 0) < index

----------------------------------------------------------------------------
(* getTopScoredSkills: src/src/utils/rate-limiter.ts, lines 900-909 *)

\* Array.prototype.sort is stable: an element is placed after every element
\* that does not compare greater than it. key is a function from the elements
\* to the number the comparator orders by; InsertByDesc places x into a
\* sequence that is already ordered by non-increasing key.
RECURSIVE InsertByDesc(_, _, _)
InsertByDesc(sorted, x, key) ==
  IF sorted = <<>> THEN <<x>>
  ELSE IF key[Head(sorted)] >= key[x]
    THEN <<Head(sorted)>> \o InsertByDesc(Tail(sorted), x, key)
    ELSE <<x>> \o sorted

\* s.sort((a, b) => key[b] - key[a])
RECURSIVE SortByDesc(_, _)
SortByDesc(s, key) ==
  IF s = <<>> THEN <<>>
  ELSE InsertByDesc(SortByDesc(SubSeq(s, 1, Len(s) - 1), key), s[Len(s)], key)

\* the default value of the parameter limit
DefaultLimit == 20

\* An optional argument is a sequence: <<>> when omitted, <<n>> when given
Undefined == <<>>

Given(n) == <<n>>

EffectiveLimit(limit) == IF limit = Undefined THEN DefaultLimit ELSE limit[1]

SortScoredAscending(skills) ==
  SortByDesc(skills, [sk \in Range(skills) |-> 0 - sk.score])

\* .sort((a, b) => b.score - a.score)
SortScored(skills) ==
  SortByDesc(skills, [sk \in Range(skills) |-> sk.score])

GetTopScoredSkills(skills, limit, minThreshold) ==
  Take(SortScored(SelectSeq(skills, LAMBDA sk : sk.score >= minThreshold)),
       EffectiveLimit(limit))

\* Bounds of the inputs: short lists with every combination of scores, and
\* the long lists the tests build (scores 50, 51, ...) around the default limit
MaxTopSkills == 3

MaxLongList == 22

\* a ScoredSkill, reduced to its identity (its position in the input) and score
TopShortLists ==
  {[i \in 1..n |-> [id |-> i, score |-> f[i]]] :
     n \in 0..MaxTopSkills, f \in [1..MaxTopSkills -> {10, 15, 30, 50}]}

\* Array.from({ length: n }, (_, i) => createScoredSkill(50 + i))
TopLongLists ==
  {[i \in 1..n |-> [id |-> i, score |-> 50 + (i - 1)]] :
     n \in (DefaultLimit - 1)..MaxLongList}

TopCall ==
  /\ topPc = "call"
  /\ topResult' = GetTopScoredSkills(topSkills, topLimit, topThreshold)
  /\ topPc' = "done"
  /\ UNCHANGED <<topSkills, topLimit, topThreshold, topOthers>>

\* getTopScoredSkills at rest, while another component runs
TopIdle ==
  /\ topSkills = <<>>
  /\ topLimit = Undefined
  /\ topThreshold = 0
  /\ topResult = <<>>
  /\ topPc = "idle"

\* C3: the list returned by getTopScoredSkills is ordered by non-increasing
\* score, and two skills with equal scores keep the relative order they have
\* in the input list.
C3_SortedDescendingStable ==
  topPc = "done" =>
    \A i, j \in DOMAIN topResult :
      i < j =>
        /\ topResult[i].score >= topResult[j].score
        /\ topResult[i].score = topResult[j].score
             => topResult[i].id < topResult[j].id

\* C3 witness: a returned list that holds a tie and that the sort had to
\* reorder.
C3_Witness ==
  /\ topPc = "done"
  /\ \E i, j \in DOMAIN topResult :
       i < j /\ topResult[i].score = topResult[j].score
  /\ \E i, j \in DOMAIN topResult :
       i < j /\ topResult[i].id > topResult[j].id

\* the input skills at or above the threshold
AboveThreshold == {sk \in Range(topSkills) : sk.score >= topThreshold}

\* C4: called without a limit, getTopScoredSkills returns exactly the input
\* skills whose score is at or above the minimum threshold, with no cap on
\* their number.
C4_NoDefaultCap ==
  (topPc = "done" /\ topLimit = Undefined) =>
    /\ Range(topResult) = AboveThreshold
    /\ Len(topResult) = Cardinality(AboveThreshold)

----------------------------------------------------------------------------
(* Configuration helpers: src/src/topcoder/skill-matcher.ts, lines 283-366 *)

\* config.languageAliases: canonical name and its aliases
LanguageAliases ==
  << <<ToLowerCase(Str.javaScript), <<Str.js>>>>,
     <<ToLowerCase(Str.typeScript), <<Str.ts>>>> >>

\* config.extensionToTech, in the order of the file
ExtensionToTech ==
  << <<Str.extTs, Str.typeScript>>,
     <<Str.extJs, Str.javaScript>>,
     <<Str.extJsx, Str.javaScript>>,
     <<Str.extJava, Str.javaLang>> >>

\* config.specialFiles, in the order of the file
SpecialFiles ==
  << <<Str.dockerfile, Str.docker>>,
     <<Str.packageJson, Str.nodeJsTech>> >>

\* s.toLowerCase().replace(/[.\s-]/g, '')
Normalize(s) ==
  SelectSeq(ToLowerCase(s), LAMBDA c : c \notin {".", " ", "-"})

AreTermsAliases(term1, term2) ==
  LET t1 == Normalize(term1)
      t2 == Normalize(term2)
  IN \/ t1 = t2
     \/ \E e \in DOMAIN LanguageAliases :
          LET allForms == {Normalize(LanguageAliases[e][1])}
                            \cup {Normalize(a) : a \in Range(LanguageAliases[e][2])}
          IN t1 \in allForms /\ t2 \in allForms

\* getFileExtensions(term): the extensions whose technology is the term
GetFileExtensions(term) ==
  LET hit(e) == ToLowerCase(e[2]) = ToLowerCase(term)
  IN [i \in DOMAIN SelectSeq(ExtensionToTech, hit) |->
        SelectSeq(ExtensionToTech, hit)[i][1]]

\* String.prototype.endsWith
EndsWith(s, suffix) ==
  /\ Len(suffix) <= Len(s)
  /\ SubSeq(s, Len(s) - Len(suffix) + 1, Len(s)) = suffix

\* String.prototype.includes
Includes(s, part) == IndexOf(s, part, 0) # -1

----------------------------------------------------------------------------
(* collectEvidence: src/unnamed/part_009 *)

TermsMatch(term1, term2) == AreTermsAliases(term1, term2)

FileIndicatesTechnology(filename, terms) ==
  LET fileLower == ToLowerCase(filename)
  IN \E t \in DOMAIN terms : \E e \in DOMAIN SpecialFiles :
       LET pattern == ToLowerCase(SpecialFiles[e][1])
       IN /\ (fileLower = pattern \/ Includes(fileLower, pattern))
          /\ TermsMatch(ToLowerCase(terms[t]), ToLowerCase(SpecialFiles[e][2]))

FileMatchesSkillByExtension(filename, terms) ==
  LET fileLower == ToLowerCase(filename)
  IN \E t \in DOMAIN terms :
       \E ext \in Range(GetFileExtensions(terms[t])) :
         EndsWith(fileLower, ToLowerCase(ext))

\* the keys of a language -> bytes record, in insertion order
LanguageKeys(repo) == [i \in DOMAIN repo.languages |-> repo.languages[i][1]]

\* repoTerms of collectRepoEvidence: language, language keys, topics
EvidenceRepoTerms(repo) ==
  LET lang == IF repo.language = Undefined
                THEN <<>> ELSE <<ToLowerCase(repo.language[1])>>
      keys == [i \in DOMAIN repo.languages |-> ToLowerCase(repo.languages[i][1])]
      tops == [i \in DOMAIN repo.topics |-> ToLowerCase(repo.topics[i])]
  IN lang \o keys \o tops

RepoIsEvidence(repo, terms) ==
  \/ \E t \in DOMAIN terms : \E rt \in Range(EvidenceRepoTerms(repo)) :
       TermsMatch(terms[t], rt)
  \/ /\ Len(repo.rootFiles) > 0
     /\ \E f \in DOMAIN repo.rootFiles :
          FileIndicatesTechnology(repo.rootFiles[f], terms)
  \/ /\ repo.readme # Undefined
     /\ repo.readme[1] # <<>>
     /\ \E t \in DOMAIN terms :
          IsWholeWordMatch(ToLowerCase(repo.readme[1]), ToLowerCase(terms[t]))

SortReposUnsorted(repos) == repos

\* .sort((a, b) => b.stars - a.stars)
SortReposByStars(repos) ==
  SortByDesc(repos, [r \in Range(repos) |-> r.stars])

CollectRepoEvidence(terms, data, limit) ==
  LET matchingRepos ==
        SortReposByStars(SelectSeq(data.repos, LAMBDA r : RepoIsEvidence(r, terms)))
      shown == Take(matchingRepos, limit)
  IN [i \in DOMAIN shown |->
        [type |-> "repo",
         title |-> <<shown[i].fullName>>,
         url |-> shown[i].url,
         detail |-> IF LanguageKeys(shown[i]) # <<>>
                      THEN Given(Take(LanguageKeys(shown[i]), 3)) ELSE Undefined]]

\* `${pr.title} ${pr.body || ''}`.toLowerCase()
PRText(pr) ==
  ToLowerCase(pr.title \o <<" ">> \o (IF pr.body = Undefined THEN <<>> ELSE pr.body[1]))

PRMatchesTerms(pr, terms) ==
  \E t \in DOMAIN terms :
    IsWholeWordMatch(ToLowerCase(PRText(pr)), ToLowerCase(terms[t]))

PRIsMergedAny(pr) == TRUE

\* .filter(pr => pr.merged)
PRIsMerged(pr) == pr.merged

CollectPREvidence(terms, data, limit) ==
  LET matchingPRs ==
        Take(SelectSeq(SelectSeq(data.pullRequests,
                                 LAMBDA pr : PRMatchesTerms(pr, terms)),
                       PRIsMerged),
             limit)
  IN [i \in DOMAIN matchingPRs |->
        [type |-> "pr",
         title |-> <<"PR #", matchingPRs[i].number, matchingPRs[i].title>>,
         url |-> matchingPRs[i].url,
         detail |-> Given(IF matchingPRs[i].merged
                            THEN "Merged" ELSE matchingPRs[i].state)]]

CommitIsEvidence(commit, terms) ==
  \/ \E t \in DOMAIN terms :
       IsWholeWordMatch(ToLowerCase(commit.message), ToLowerCase(terms[t]))
  \/ \E f \in DOMAIN commit.filesChanged :
       FileMatchesSkillByExtension(commit.filesChanged[f], terms)

\* repoCommitCounts: a Map keeps its keys in the order of first insertion
RECURSIVE RepoCommitCounts(_, _)
RepoCommitCounts(commits, terms) ==
  IF commits = <<>> THEN <<>>
  ELSE LET before == RepoCommitCounts(SubSeq(commits, 1, Len(commits) - 1), terms)
           c == commits[Len(commits)]
       IN IF ~CommitIsEvidence(c, terms) THEN before
          ELSE IF \E i \in DOMAIN before : before[i][1] = c.repo
            THEN [i \in DOMAIN before |->
                    IF before[i][1] = c.repo
                      THEN <<before[i][1], before[i][2] + 1>> ELSE before[i]]
            ELSE before \o << <<c.repo, 1>> >>

\* data.repos.find(r => r.fullName === repoName): the first such repository
FindRepo(data, repoName) ==
  LET hits == {i \in DOMAIN data.repos : data.repos[i].fullName = repoName}
  IN IF hits = {} THEN Undefined
     ELSE Given(data.repos[CHOOSE i \in hits : \A j \in hits : i <= j])

CollectCommitEvidence(terms, data, limit) ==
  LET counts == RepoCommitCounts(data.commits, terms)
      sortedRepos == Take(SortByDesc(counts, [e \in Range(counts) |-> e[2]]), limit)
      found == SelectSeq(sortedRepos, LAMBDA e : FindRepo(data, e[1]) # Undefined)
  IN [i \in DOMAIN found |->
        [type |-> "commit",
         title |-> <<found[i][2], " commits in ", found[i][1]>>,
         url |-> <<FindRepo(data, found[i][1])[1].url, "/commits">>,
         detail |-> Given("Active contributor")]]

StarTerms(star) ==
  LET lang == IF star.language = Undefined
                THEN <<>> ELSE <<ToLowerCase(star.language[1])>>
      tops == [i \in DOMAIN star.topics |-> ToLowerCase(star.topics[i])]
  IN lang \o tops

StarIsEvidence(star, terms) ==
  \E t \in DOMAIN terms : \E st \in Range(StarTerms(star)) : TermsMatch(terms[t], st)

CollectStarEvidence(terms, data, limit) ==
  LET matchingStars ==
        Take(SelectSeq(data.stars, LAMBDA st : StarIsEvidence(st, terms)), limit)
  IN [i \in DOMAIN matchingStars |->
        [type |-> "starred",
         title |-> <<"Starred: ", matchingStars[i].fullName>>,
         url |-> matchingStars[i].url,
         detail |-> matchingStars[i].description]]

\* const max = maxEvidence ?? limits.maxPerSkill
EvidenceMax(maxEvidence, limits) ==
  IF maxEvidence = Undefined THEN limits.maxPerSkill ELSE maxEvidence[1]

\* the four sub-lists, in the order collectEvidence pushes them
EvidenceSubLists(terms, data, limits) ==
  << CollectRepoEvidence(terms, data, limits.repoLimit),
     CollectPREvidence(terms, data, limits.prLimit),
     CollectCommitEvidence(terms, data, limits.commitLimit),
     CollectStarEvidence(terms, data, limits.starLimit) >>

ConcatStarsFirst(subs) == subs[4] \o subs[1] \o subs[2] \o subs[3]

\* evidence.push(...repoEvidence); ... evidence.push(...starEvidence)
ConcatSubLists(subs) == subs[1] \o subs[2] \o subs[3] \o subs[4]

TruncateNone(evidence, max) == evidence

\* evidence.slice(0, max)
TruncateEvidence(evidence, max) == Take(evidence, max)

CollectEvidence(terms, data, maxEvidence, limits) ==
  TruncateEvidence(ConcatSubLists(EvidenceSubLists(terms, data, limits)),
                   EvidenceMax(maxEvidence, limits))

----------------------------------------------------------------------------
(* The activity corpus: sample records in the shape of src/src/utils/cache.ts *)

\* Date.now(), in days
NowDay == 1000

RepoApp ==
  [fullName |-> "u/app", url |-> "https://github.com/u/app",
   language |-> Given(Str.javaScript),
   languages |-> << <<Str.javaScript, 50000>>, <<Str.typeScript, 10000>> >>,
   topics |-> <<Str.react>>, stars |-> 99, forks |-> 9, isOwner |-> TRUE,
   updatedAt |-> NowDay - 10, rootFiles |-> <<Str.packageJson>>, readme |-> Undefined]

RepoApi ==
  [fullName |-> "u/api", url |-> "https://github.com/u/api",
   language |-> Given(Str.typeScript),
   languages |-> << <<Str.typeScript, 30000>> >>,
   topics |-> <<Str.nodejs>>, stars |-> 9, forks |-> 0, isOwner |-> TRUE,
   updatedAt |-> NowDay - 300, rootFiles |-> <<>>, readme |-> Given(Str.readmeReact)]

RepoOld ==
  [fullName |-> "o/old", url |-> "https://github.com/o/old",
   language |-> Given(Str.javaLang),
   languages |-> << <<Str.javaLang, 20000>> >>,
   topics |-> <<Str.react>>, stars |-> 245, forks |-> 30, isOwner |-> FALSE,
   updatedAt |-> NowDay - 800, rootFiles |-> <<Str.dockerfile>>, readme |-> Undefined]

RepoPool == {RepoApp, RepoApi, RepoOld}

PRHooks ==
  [number |-> 1, title |-> Str.prAddHooks, body |-> Given(Str.prUsesReact),
   state |-> "closed", merged |-> TRUE, url |-> "https://github.com/u/app/pull/1"]

PRUpdate ==
  [number |-> 2, title |-> Str.prUpdate, body |-> Undefined,
   state |-> "open", merged |-> FALSE, url |-> "https://github.com/u/app/pull/2"]

PRReactive ==
  [number |-> 3, title |-> Str.prReactive, body |-> Given(<<>>),
   state |-> "closed", merged |-> TRUE, url |-> "https://github.com/u/app/pull/3"]

CommitHook ==
  [sha |-> "abc123", repo |-> "u/app", message |-> Str.msgReactHook,
   filesChanged |-> <<Str.fileAppJsx>>, date |-> NowDay - 20]

CommitGone ==
  [sha |-> "def456", repo |-> "x/gone", message |-> Str.msgReactFix,
   filesChanged |-> <<Str.fileMainTs>>, date |-> NowDay - 400]

CommitPool == {CommitHook, CommitGone}

StarAwesome ==
  [fullName |-> "awesome/react", url |-> "https://github.com/awesome/react",
   language |-> Given(Str.javaScript), topics |-> <<Str.react>>,
   description |-> Undefined]

\* The orderings of the subsets of S: the lists of distinct records a
\* de-duplicated snapshot can hold
Arrangements(S) ==
  UNION {{f \in [1..k -> S] : \A i, j \in 1..k : i # j => f[i] # f[j]} :
           k \in 0..Cardinality(S)}

Corpora ==
  {[repos |-> r, pullRequests |-> p, commits |-> c, stars |-> st] :
     r \in Arrangements(RepoPool), p \in Arrangements({PRHooks, PRUpdate, PRReactive}),
     c \in Arrangements(CommitPool), st \in Arrangements({StarAwesome})}

\* allTerms of a skill: its lowercased name, then its lowercased matched terms
TermLists ==
  {<<Str.reactJs, Str.react>>,
   <<ToLowerCase(Str.typeScript), Str.ts>>,
   <<Str.javaTopic>>}

\* config.evidence: the values the tests read, and a tighter configuration
EvidenceLimitsDefault ==
  [maxPerSkill |-> 5, repoLimit |-> 3, prLimit |-> 2, commitLimit |-> 2,
   starLimit |-> 1]

\* the largest maxEvidence argument tried
MaxEvidenceArg == 2

\* collectEvidence(terms, data, maxEvidence); evSub keeps the four local
\* sub-lists repoEvidence, prEvidence, commitEvidence, starEvidence
EvCollect ==
  /\ evPc = "call"
  /\ evSub' = EvidenceSubLists(evTerms, evData, evLimits)
  /\ evResult' = TruncateEvidence(ConcatSubLists(evSub'),
                                  EvidenceMax(evMax, evLimits))
  /\ evPc' = "done"
  /\ UNCHANGED <<evTerms, evData, evMax, evLimits, evOthers>>

EvIdle ==
  /\ evTerms = <<>>
  /\ evData = <<>>
  /\ evMax = Undefined
  /\ evLimits = <<>>
  /\ evSub = <<>>
  /\ evResult = <<>>
  /\ evPc = "idle"

\* the cap in force: maxEvidence when given, else the configured maxPerSkill
EvCap == IF evMax = Undefined THEN evLimits.maxPerSkill ELSE evMax[1]

EvAll == evSub[1] \o evSub[2] \o evSub[3] \o evSub[4]

\* C5: the evidence list returned by collectEvidence has length at most the
\* configured maxPerSkill, or at most maxEvidence when that argument is given.
C5_EvidenceLengthBounded ==
  evPc = "done" => Len(evResult) <= EvCap

\* C5 witness: more evidence was collected than the cap allows, and the
\* returned list was cut to the cap.
C5_Witness ==
  /\ evPc = "done"
  /\ Len(EvAll) > EvCap
  /\ Len(evResult) = EvCap

EvKinds == <<"repo", "pr", "commit", "starred">>

EvKindLimit(k) ==
  CASE k = 1 -> evLimits.repoLimit
    [] k = 2 -> evLimits.prLimit
    [] k = 3 -> evLimits.commitLimit
    [] k = 4 -> evLimits.starLimit

EvKindRank(item) == CHOOSE k \in 1..4 : EvKinds[k] = item.type

\* C6: the result of collectEvidence is a prefix of the concatenation of the
\* repository, merged-pull-request, commit-activity and starred-repository
\* sub-lists in this order, each sub-list holds only its own kind and at most
\* its configured limit, and no item of a lower-priority kind precedes an item
\* of a higher-priority kind.
C6_PriorityOrderedPrefix ==
  evPc = "done" =>
    /\ Len(evResult) <= Len(EvAll)
    /\ evResult = SubSeq(EvAll, 1, Len(evResult))
    /\ \A k \in 1..4 :
         /\ Len(evSub[k]) <= EvKindLimit(k)
         /\ \A i \in DOMAIN evSub[k] : evSub[k][i].type = EvKinds[k]
    /\ \A i, j \in DOMAIN evResult :
         i < j => EvKindRank(evResult[i]) <= EvKindRank(evResult[j])

\* C6 witness: a returned list with three kinds of evidence that is a proper
\* prefix of what was collected.
C6_Witness ==
  /\ evPc = "done"
  /\ Cardinality({evResult[i].type : i \in DOMAIN evResult}) >= 3
  /\ Len(evResult) < Len(EvAll)

\* the repository evidence items of the result, and the repository of one
EvRepoItems == SelectSeq(evResult, LAMBDA e : e.type = "repo")

EvRepoOf(item) ==
  CHOOSE r \in Range(evData.repos) : r.fullName = item.title[1]

EvMatchingRepos == {r \in Range(evData.repos) : RepoIsEvidence(r, evTerms)}

EvShownRepos == {EvRepoOf(EvRepoItems[i]) : i \in DOMAIN EvRepoItems}

EvStarsDescending ==
  \A i, j \in DOMAIN EvRepoItems :
    i < j => EvRepoOf(EvRepoItems[i]).stars >= EvRepoOf(EvRepoItems[j]).stars

\* C7 as stated: repository evidence is listed in non-increasing star count,
\* and a matching repository is left out only if the repository limit is
\* already filled by matching repositories with at least as many stars.
C7_LeftOutOnlyWhenRepoLimitFilled ==
  evPc = "done" =>
    /\ EvStarsDescending
    /\ \A r \in EvMatchingRepos \ EvShownRepos :
         /\ Len(EvRepoItems) = evLimits.repoLimit
         /\ \A q \in EvShownRepos : q \in EvMatchingRepos /\ q.stars >= r.stars

\* C7 amended: repository evidence is listed in non-increasing star count,
\* and a matching repository is left out only if the repository limit, or the
\* overall cap (maxEvidence or maxPerSkill) when that is smaller, is already
\* filled by matching repositories with at least as many stars.
C7_LeftOutOnlyWhenLimitOrCapFilled ==
  evPc = "done" =>
    /\ EvStarsDescending
    /\ \A r \in EvMatchingRepos \ EvShownRepos :
         /\ Len(EvRepoItems) = Min(evLimits.repoLimit, EvCap)
         /\ \A q \in EvShownRepos : q \in EvMatchingRepos /\ q.stars >= r.stars

\* C7 witness: two repositories are listed, the input held them in another
\* order, and a third matching repository is left out.
C7_Witness ==
  /\ evPc = "done"
  /\ Len(EvRepoItems) = 2
  /\ EvMatchingRepos \ EvShownRepos # {}
  /\ \E i, j \in DOMAIN evData.repos :
       /\ i < j
       /\ evData.repos[i].stars < evData.repos[j].stars
       /\ {evData.repos[i], evData.repos[j]} \subseteq EvShownRepos

\* the pull request an evidence item of kind 'pr' links to
EvPROf(item) == {pr \in Range(evData.pullRequests) : pr.url = item.url}

\* title + " " + body of a pull request contains a term as a whole word,
\* letter case ignored
PRMentionsTerm(pr) ==
  \E t \in DOMAIN evTerms :
    HasBoundedOccurrenceFrom(
      ToLowerCase(pr.title \o <<" ">>
                    \o (IF pr.body = Undefined THEN <<>> ELSE pr.body[1])),
      ToLowerCase(evTerms[t]), 0)

\* C8: every evidence item of kind 'pr' returned by collectEvidence refers to
\* a pull request that is merged and whose title+body contains one of the
\* terms as a whole word, and carries the detail 'Merged'.
C8_PREvidenceMergedAndMatching ==
  evPc = "done" =>
    \A i \in DOMAIN evResult :
      evResult[i].type = "pr" =>
        /\ evResult[i].detail = Given("Merged")
        /\ EvPROf(evResult[i]) # {}
        /\ \A pr \in EvPROf(evResult[i]) : pr.merged /\ PRMentionsTerm(pr)

\* C8 witness: the corpus holds an unmerged pull request that mentions a term
\* ahead of a merged one, and only the merged one is returned.
C8_Witness ==
  /\ evPc = "done"
  /\ \E i, j \in DOMAIN evData.pullRequests :
       /\ i < j
       /\ ~evData.pullRequests[i].merged
       /\ PRMentionsTerm(evData.pullRequests[i])
       /\ \E e \in DOMAIN evResult :
            evResult[e].type = "pr" /\ evResult[e].url = evData.pullRequests[j].url

----------------------------------------------------------------------------
(* ScoringEngine: src/src/utils/rate-limiter.ts, lines 480-909              *)
(*                                                                         *)
(* The code computes in double precision; the model computes the same      *)
(* expressions in exact rationals <<numerator, denominator>>, so the two   *)
(* can only differ where a sum lies within a rounding error of k + 0.5.    *)
(* Weights are kept in hundredths (0.40 is 40).                            *)

RECURSIVE GCD(_, _)
GCD(a, b) == IF b = 0 THEN a ELSE GCD(b, a % b)

Rat(n, d) == LET g == GCD(n, d) IN <<n \div g, d \div g>>

RInt(n) == <<n, 1>>

RAdd(a, b) == Rat(a[1] * b[2] + b[1] * a[2], a[2] * b[2])

RMul(a, b) == Rat(a[1] * b[1], a[2] * b[2])

RDiv(a, b) == Rat(a[1] * b[2], a[2] * b[1])

RLeq(a, b) == a[1] * b[2] <= b[1] * a[2]

\* Math.min of two numbers
RMin(a, b) == IF RLeq(a, b) THEN a ELSE b

\* Math.round: the nearest integer, halves upwards
RRound(a) == (2 * a[1] + a[2]) \div (2 * a[2])

RECURSIVE RSum(_)
RSum(s) == IF s = <<>> THEN RInt(0) ELSE RAdd(s[1], RSum(Tail(s)))

\* Math.max(...s, least)
RECURSIVE RMaxOf(_, _)
RMaxOf(s, least) ==
  IF s = <<>> THEN least
  ELSE LET rest == RMaxOf(Tail(s), least)
       IN IF RLeq(s[1], rest) THEN rest ELSE s[1]

RECURSIVE SumSeq(_)
SumSeq(s) == IF s = <<>> THEN 0 ELSE s[1] + SumSeq(Tail(s))

\* Math.log10(k) in thousandths, for k = 1 .. 46; from 47 on both
\* log10(k) * 15 > 25 and log10(k) * 10 > 15, so the caps decide
Log10Milli ==
  <<
     0, 301, 477, 602, 699, 778, 845, 903, 954, 1000,
     1041, 1079, 1114, 1146, 1176, 1204, 1230, 1255, 1279, 1301,
     1322, 1342, 1362, 1380, 1398, 1415, 1431, 1447, 1462, 1477,
     1491, 1505, 1519, 1531, 1544, 1556, 1568, 1580, 1591, 1602,
     1613, 1623, 1633, 1643, 1653, 1663
  >>

\* Math.min(Math.log10(total + 1) * factor, cap)
LogBonus(total, factor, cap) ==
  IF total + 1 > Len(Log10Milli) THEN RInt(cap)
  ELSE RMin(Rat(Log10Milli[total + 1] * factor, 1000), RInt(cap))

\* [...new Set(list)]: the first occurrence of each element, in order
RECURSIVE Dedup(_)
Dedup(s) ==
  IF s = <<>> THEN <<>>
  ELSE LET before == Dedup(SubSeq(s, 1, Len(s) - 1))
           last == s[Len(s)]
       IN IF last \in Range(before) THEN before ELSE Append(before, last)

GetRepoTerms(repo) ==
  [i \in DOMAIN repo.languages |-> ToLowerCase(repo.languages[i][1])]
    \o [i \in DOMAIN repo.topics |-> ToLowerCase(repo.topics[i])]
    \o (IF repo.language = Undefined THEN <<>>
        ELSE <<ToLowerCase(repo.language[1])>>)

TermsMatchRepo(skillTerms, repoTerms) ==
  \E t \in DOMAIN skillTerms : \E rt \in DOMAIN repoTerms :
    TermsMatch(skillTerms[t], repoTerms[rt])

FileMatchesSkill(filename, terms) ==
  LET fileLower == ToLowerCase(filename)
  IN \E t \in DOMAIN terms :
       \/ \E ext \in Range(GetFileExtensions(terms[t])) : EndsWith(fileLower, ext)
       \/ IsWholeWordMatch(fileLower, terms[t])

MatchingRepos(terms, data) ==
  SelectSeq(data.repos, LAMBDA repo : TermsMatchRepo(terms, GetRepoTerms(repo)))

CalculateLanguageScore(terms, data, maxRawScore, totalRawScore, rawScore) ==
  LET relativeImportance ==
        IF ~RLeq(totalRawScore, RInt(0))
          THEN RMul(RDiv(rawScore, totalRawScore), RInt(100)) ELSE RInt(0)
      rankScore == RMul(RDiv(rawScore, maxRawScore), RInt(80))
      matching == MatchingRepos(terms, data)
      matchingRepos == Len(matching)
      bytesOf(repo) == [i \in DOMAIN repo.languages |-> repo.languages[i][2]]
      skillBytesOf(repo) ==
        [i \in DOMAIN repo.languages |->
           IF \E t \in DOMAIN terms :
                TermsMatch(terms[t], ToLowerCase(repo.languages[i][1]))
             THEN repo.languages[i][2] ELSE 0]
      totalLanguageBytes ==
        SumSeq([r \in DOMAIN matching |-> SumSeq(bytesOf(matching[r]))])
      skillLanguageBytes ==
        SumSeq([r \in DOMAIN matching |-> SumSeq(skillBytesOf(matching[r]))])
      repoCoverage ==
        IF Len(data.repos) > 0
          THEN Rat(matchingRepos * 100, Len(data.repos)) ELSE RInt(0)
      repoBonus == RMin(RMul(repoCoverage, Rat(1, 2)), RInt(30))
      bytePercentage ==
        IF totalLanguageBytes > 0
          THEN RMul(Rat(skillLanguageBytes, totalLanguageBytes), RInt(100))
          ELSE RInt(0)
      byteBonus == RMin(RMul(bytePercentage, Rat(3, 10)), RInt(20))
      combinedScore ==
        RAdd(RAdd(RAdd(rankScore, repoBonus), byteBonus),
             RMul(relativeImportance, Rat(1, 5)))
  IN Min(RRound(combinedScore), 100)

CalculateCommitScore(terms, data) ==
  IF Len(data.commits) = 0 THEN 0
  ELSE
    LET hasMatchingFile(commit) ==
          \E f \in DOMAIN commit.filesChanged :
            FileMatchesSkill(ToLowerCase(commit.filesChanged[f]), terms)
        hasMatchingMessage(commit) ==
          \E t \in DOMAIN terms :
            IsWholeWordMatch(ToLowerCase(commit.message), terms[t])
        strongMatches == Len(SelectSeq(data.commits, hasMatchingFile))
        relevantCommits ==
          Len(SelectSeq(data.commits,
                        LAMBDA c : hasMatchingFile(c) \/ hasMatchingMessage(c)))
        fileMatchScore == Rat(strongMatches * 60, Len(data.commits))
        messageMatchScore ==
          Rat((relevantCommits - strongMatches) * 30, Len(data.commits))
        volumeBonus == RMin(Rat(relevantCommits, 5), RInt(20))
    IN IF relevantCommits = 0 THEN 0
       ELSE Min(RRound(RAdd(RAdd(fileMatchScore, messageMatchScore), volumeBonus)),
                100)

\* the variant that scores pull requests none of which is relevant as 0
CalculatePRScoreZeroWhenIrrelevant(terms, data) ==
  IF Len(data.pullRequests) = 0 THEN 20 ELSE 0

CalculatePRScore(terms, data) ==
  IF Len(data.pullRequests) = 0 THEN 20
  ELSE
    LET hasMatchingContent(pr) ==
          LET textLower ==
                ToLowerCase(pr.title \o <<" ">>
                  \o (IF pr.body = Undefined THEN <<>> ELSE pr.body[1]))
          IN \E t \in DOMAIN terms : IsWholeWordMatch(textLower, terms[t])
        relevant == SelectSeq(data.pullRequests, hasMatchingContent)
        relevantPRs == Len(relevant)
        mergedPRs == Len(SelectSeq(relevant, LAMBDA pr : pr.merged))
    IN IF relevantPRs = 0 THEN 20
       ELSE
         LET relevanceScore == Rat(relevantPRs * 50, Len(data.pullRequests))
             mergeRate == Rat(mergedPRs * 40, relevantPRs)
             volumeBonus == RInt(Min(relevantPRs * 2, 10))
         IN Min(RRound(RAdd(RAdd(relevanceScore, mergeRate), volumeBonus)), 100)

CalculateProjectQualityScore(terms, data) ==
  LET relevant == MatchingRepos(terms, data)
      relevantRepos == Len(relevant)
      totalStars == SumSeq([i \in DOMAIN relevant |-> relevant[i].stars])
      totalForks == SumSeq([i \in DOMAIN relevant |-> relevant[i].forks])
      ownedRepos == Len(SelectSeq(relevant, LAMBDA repo : repo.isOwner))
      hasReposScore == RInt(Min(relevantRepos * 10, 40))
      ownedRepoScore == RInt(Min(ownedRepos * 5, 20))
      starScore == LogBonus(totalStars, 15, 25)
      forkScore == LogBonus(totalForks, 10, 15)
  IN IF relevantRepos = 0 THEN 0
     ELSE Min(RRound(RAdd(RAdd(hasReposScore, ownedRepoScore),
                          RAdd(starScore, forkScore))), 100)

\* dates are counted in days; now is NowDay
CalculateRecencyScore(terms, data) ==
  LET sixMonthsAgo == NowDay - 180
      oneYearAgo == NowDay - 365
      twoYearsAgo == NowDay - 730
      matching == MatchingRepos(terms, data)
      veryRecentRepos ==
        Len(SelectSeq(matching, LAMBDA r : r.updatedAt > sixMonthsAgo))
      recentRepos ==
        Len(SelectSeq(matching, LAMBDA r :
              ~(r.updatedAt > sixMonthsAgo) /\ r.updatedAt > oneYearAgo))
      olderRepos ==
        Len(SelectSeq(matching, LAMBDA r :
              ~(r.updatedAt > oneYearAgo) /\ r.updatedAt > twoYearsAgo))
      recentCommits ==
        Len(SelectSeq(data.commits, LAMBDA commit :
              /\ commit.date > oneYearAgo
              /\ \E f \in DOMAIN commit.filesChanged :
                   FileMatchesSkill(ToLowerCase(commit.filesChanged[f]), terms)))
      veryRecentScore == RInt(Min(veryRecentRepos * 15, 50))
      recentScore == RInt(Min(recentRepos * 8, 25))
      olderScore == RInt(Min(olderRepos * 3, 10))
      commitBonus == RMin(Rat(recentCommits, 2), RInt(15))
  IN IF Len(matching) = 0 THEN 0
     ELSE Min(RRound(RAdd(RAdd(veryRecentScore, recentScore),
                          RAdd(olderScore, commitBonus))), 100)

\* allTerms of scoreSkill: the lowercased name, then the lowercased terms
AllTerms(match) ==
  Dedup(<<ToLowerCase(match.skill.name)>>
          \o [i \in DOMAIN match.matchedTerms |-> ToLowerCase(match.matchedTerms[i])])

\* the variant that adds the weighted sum to the base score as it is
FinalScoreUnscaled(components, config) ==
  LET w == config.weights
      weighted100 ==
        components.languageScore * w.language
          + components.commitScore * w.commits
          + components.prScore * w.prs
          + components.projectQualityScore * w.projectQuality
          + components.recencyScore * w.recency
  IN RRound(RAdd(RInt(config.baseScore), Rat(weighted100, 100)))

\* Math.min(Math.round(baseScore + weightedScore * ((100 - baseScore) / 100)),
\*          maxScore), the weights being in hundredths
FinalScore(components, config) ==
  LET w == config.weights
      weighted100 ==
        components.languageScore * w.language
          + components.commitScore * w.commits
          + components.prScore * w.prs
          + components.projectQualityScore * w.projectQuality
          + components.recencyScore * w.recency
      weightedScore == Rat(weighted100, 100)
  IN Min(RRound(RAdd(RInt(config.baseScore),
                     RMul(weightedScore, Rat(100 - config.baseScore, 100)))),
         config.maxScore)

\* scoreSkill; the explanation text, which nothing reads back, is left out
ScoreSkill(match, data, maxRawScore, totalRawScore, config) ==
  LET allTerms == AllTerms(match)
      components ==
        [languageScore |->
           CalculateLanguageScore(allTerms, data, maxRawScore, totalRawScore,
                                  match.rawScore),
         commitScore |-> CalculateCommitScore(allTerms, data),
         prScore |-> CalculatePRScore(allTerms, data),
         projectQualityScore |-> CalculateProjectQualityScore(allTerms, data),
         recencyScore |-> CalculateRecencyScore(allTerms, data)]
  IN [skill |-> match.skill,
      score |-> FinalScore(components, config),
      components |-> components,
      evidence |-> CollectEvidence(allTerms, data, Undefined, config.evidence)]

\* the variant that normalises each skill by the total of the raw scores of
\* the skills up to and including it
ScoreSkillsRunningTotal(matchedSkills, data, config) ==
  LET raws == [i \in DOMAIN matchedSkills |-> matchedSkills[i].rawScore]
      maxRawScore == RMaxOf(raws, RInt(1))
  IN [i \in DOMAIN matchedSkills |->
        ScoreSkill(matchedSkills[i], data, maxRawScore,
                   RSum(SubSeq(raws, 1, i)), config)]

\* scoreSkills(matchedSkills, data)
ScoreSkills(matchedSkills, data, config) ==
  LET raws == [i \in DOMAIN matchedSkills |-> matchedSkills[i].rawScore]
      totalRawScore == RSum(raws)
      maxRawScore == RMaxOf(raws, RInt(1))
  IN [i \in DOMAIN matchedSkills |->
        ScoreSkill(matchedSkills[i], data, maxRawScore, totalRawScore, config)]

\* Inputs of the scoring run: matched skills with their raw scores ...
MatchPool ==
  {[skill |-> [id |-> "skill-react", name |-> Str.reactName],
    matchedTerms |-> <<Str.react, Str.reactJs>>, rawScore |-> Rat(21, 2)],
   [skill |-> [id |-> "skill-ts", name |-> Str.typeScript],
    matchedTerms |-> <<ToLowerCase(Str.typeScript), Str.ts>>, rawScore |-> RInt(5)],
   [skill |-> [id |-> "skill-java", name |-> Str.javaLang],
    matchedTerms |-> <<Str.javaTopic>>, rawScore |-> Rat(1, 2)],
   [skill |-> [id |-> "skill-java", name |-> Str.javaLang],
    matchedTerms |-> <<Str.javaTopic>>, rawScore |-> RInt(200)],
   [skill |-> [id |-> "skill-docker", name |-> Str.docker],
    matchedTerms |-> <<ToLowerCase(Str.docker)>>, rawScore |-> RInt(3)]}

\* the longest list of matched skills scored at once
MaxMatched == 2

\* lists of matched skills: at most MaxMatched, one entry per catalog skill
MatchedLists ==
  {m \in UNION {[1..k -> MatchPool] : k \in 0..MaxMatched} :
     \A i, j \in DOMAIN m : i # j => m[i].skill.id # m[j].skill.id}

\* ... the corpus, with its records in the order they were collected ...
ScoreCorpora ==
  {[repos |-> r, pullRequests |-> p, commits |-> c, stars |-> <<>>] :
     r \in {<<>>, <<RepoApp>>, <<RepoApi>>, <<RepoOld>>, <<RepoApp, RepoApi>>,
            <<RepoApp, RepoOld>>, <<RepoApi, RepoOld>>,
            <<RepoApp, RepoApi, RepoOld>>},
     p \in {<<>>, <<PRReactive>>, <<PRHooks, PRUpdate, PRReactive>>},
     c \in {<<>>, <<CommitGone>>, <<CommitHook, CommitGone>>}}

\* ... and the configuration: weights in hundredths that sum to 100
ScoreConfigs ==
  {[weights |-> w, baseScore |-> b, maxScore |-> 100, minScoreThreshold |-> 15,
    evidence |-> EvidenceLimitsDefault] :
     w \in {[language |-> 40, commits |-> 20, prs |-> 10,
             projectQuality |-> 10, recency |-> 20],
            [language |-> 100, commits |-> 0, prs |-> 0,
             projectQuality |-> 0, recency |-> 0]},
     b \in {0, 15}}

\* engine.scoreSkills(matchedSkills, data)
ScScoreSkills ==
  /\ scPc = "score"
  /\ scScored' = ScoreSkills(scMatched, scData, scConfig)
  /\ scPc' = "rank"
  /\ UNCHANGED <<scMatched, scData, scConfig, scTop, scOthers>>

\* getTopScoredSkills(scoredSkills)
ScGetTopScoredSkills ==
  /\ scPc = "rank"
  /\ scTop' = GetTopScoredSkills(scScored, Undefined, scConfig.minScoreThreshold)
  /\ scPc' = "done"
  /\ UNCHANGED <<scMatched, scData, scConfig, scScored, scOthers>>

ScNext ==
  \/ ScScoreSkills
  \/ ScGetTopScoredSkills

\* the scoring engine at rest, while another component runs
ScIdle ==
  /\ scMatched = <<>>
  /\ scData = <<>>
  /\ scConfig = <<>>
  /\ scScored = <<>>
  /\ scTop = <<>>
  /\ scPc = "idle"

ScScoredReady == scPc \in {"rank", "done"}

\* C1: with non-negative weights that sum to 1.0 and 0 <= baseScore <=
\* maxScore = 100, every score computed by scoreSkills for a matched skill is
\* an integer with baseScore <= score <= 100.
C1_ScoreIntegerWithinBounds ==
  ScScoredReady =>
    /\ Len(scScored) = Len(scMatched)
    /\ \A i \in DOMAIN scScored :
         /\ scScored[i].score \in Int
         /\ scConfig.baseScore <= scScored[i].score
         /\ scScored[i].score <= 100

\* C1 witness: a skill with matched terms, scored with all five components
\* positive under a positive base score, lands strictly above the base score.
C1_Witness ==
  /\ ScScoredReady
  /\ scConfig.baseScore > 0
  /\ \E i \in DOMAIN scScored :
       LET c == scScored[i].components
       IN /\ c.languageScore > 0 /\ c.commitScore > 0 /\ c.prScore > 0
          /\ c.projectQualityScore > 0 /\ c.recencyScore > 0
          /\ scScored[i].score > scConfig.baseScore
          /\ Len(scMatched[i].matchedTerms) >= 1

\* nothing in the corpus matches any of the skill's terms
NoCorpusMatch(match) ==
  LET terms == AllTerms(match)
      mentions(txt) ==
        \E t \in DOMAIN terms : HasBoundedOccurrenceFrom(ToLowerCase(txt), terms[t], 0)
  IN /\ \A r \in Range(scData.repos) :
          ~TermsMatchRepo(terms, GetRepoTerms(r)) /\ ~RepoIsEvidence(r, terms)
     /\ \A c \in Range(scData.commits) :
          /\ ~CommitIsEvidence(c, terms)
          /\ ~mentions(c.message)
          /\ \A f \in Range(c.filesChanged) : ~FileMatchesSkill(f, terms)
     /\ \A pr \in Range(scData.pullRequests) : ~mentions(PRText(pr))
     /\ \A st \in Range(scData.stars) : ~StarIsEvidence(st, terms)

InTop(i) == \E k \in DOMAIN scTop : scTop[k].skill.id = scMatched[i].skill.id

RankOnlyLanguageScore(i) ==
  LET raws == [k \in DOMAIN scMatched |-> scMatched[k].rawScore]
      raw == scMatched[i].rawScore
  IN Min(RRound(RAdd(RMul(RDiv(raw, RMaxOf(raws, RInt(1))), RInt(80)),
                     RMul(RDiv(raw, RSum(raws)), RInt(20)))), 100)

----------------------------------------------------------------------------
(* extractAllTechnologies: src/src/github/scraper.ts, lines 324-427, with  *)
(* extractTechnologiesFromCommit (src/src/github/commits.ts, 70-175) and   *)
(* extractTechnologiesFromPR (src/src/github/pull-requests.ts, 59-91).     *)
(* Weights are counted in halves, so the 0.5 of a starred repository is 1. *)
(* The pattern and file tables are cut down to the entries that a string   *)
(* of the sample corpus can hit.                                           *)

\* /\bword\b/ on text: \b separates a word character [A-Za-z0-9_] from a
\* character that is none, or from either end of the text
RegexWordTest(t, w) ==
  LET wordChar(c) == IsAlphanumeric(c) \/ c = "_"
  IN \E i \in 0..(Len(t) - Len(w)) :
       /\ SubSeq(t, i + 1, i + Len(w)) = w
       /\ (i = 0 \/ ~wordChar(t[i]))
       /\ (i + Len(w) = Len(t) \/ ~wordChar(t[i + Len(w) + 1]))

\* messagePatterns: technology, then the words of its /\bword\b/i patterns
MessagePatterns ==
  << <<Str.reactName, <<Str.react, Str.component, Str.hook>>>>,
     <<Str.typeScript, <<ToLowerCase(Str.typeScript), Str.ts>>>>,
     <<Str.docker, <<ToLowerCase(Str.docker), Str.container>>>> >>

\* fileExtensionMap of extractTechnologiesFromCommit
FileExtensionMap ==
  << <<Str.extTs, Str.typeScript>>, <<Str.extJs, Str.javaScript>>,
     <<Str.extJsx, Str.javaScript>>, <<Str.extJava, Str.javaLang>>,
     <<Str.extJson, Str.json>>, <<Str.extDockerfile, Str.docker>> >>

\* specialFiles of extractTechnologiesFromCommit
CommitSpecialFiles ==
  << <<Str.packageJson, Str.nodeJsTech>>, <<Str.dockerfile, Str.docker>> >>

\* '.' + file.split('.').pop().toLowerCase()
FileExt(file) ==
  LET dots == {i \in DOMAIN file : file[i] = "."}
      lastDot == IF dots = {} THEN 0 ELSE CHOOSE i \in dots : \A j \in dots : j <= i
  IN <<".">> \o ToLowerCase(SubSeq(file, lastDot + 1, Len(file)))

\* what one changed file pushes: its extension's technology, then those of
\* the special files its name includes
RECURSIVE FileTechnologies(_)
FileTechnologies(files) ==
  IF files = <<>> THEN <<>>
  ELSE LET file == Head(files)
           byExt == SelectSeq(FileExtensionMap, LAMBDA e : e[1] = FileExt(file))
           bySpecial ==
             SelectSeq(CommitSpecialFiles,
                       LAMBDA e : Includes(ToLowerCase(file), ToLowerCase(e[1])))
       IN [i \in DOMAIN byExt |-> byExt[i][2]]
            \o [i \in DOMAIN bySpecial |-> bySpecial[i][2]]
            \o FileTechnologies(Tail(files))

ExtractTechnologiesFromCommit(message, files) ==
  LET hit == SelectSeq(MessagePatterns,
                       LAMBDA e : \E k \in DOMAIN e[2] :
                                    RegexWordTest(ToLowerCase(message), e[2][k]))
  IN Dedup([i \in DOMAIN hit |-> hit[i][1]] \o FileTechnologies(files))

\* patterns of extractTechnologiesFromPR: category, then the words of its
\* /\bword\b/ patterns
PRPatterns ==
  << <<Str.bugFix, <<Str.fix, Str.fixed, Str.bug>>>>,
     <<Str.frontend, <<Str.ui, Str.component>>>> >>

\* extractTechnologiesFromPR(title, body); a third argument is ignored
ExtractTechnologiesFromPR(title, body) ==
  LET textLower ==
        ToLowerCase(title \o <<" ">> \o (IF body = Undefined THEN <<>> ELSE body[1]))
      hit == SelectSeq(PRPatterns,
                       LAMBDA e : \E k \in DOMAIN e[2] : RegexWordTest(textLower, e[2][k]))
  IN Dedup([i \in DOMAIN hit |-> hit[i][1]])

RECURSIVE RootFileTechnologies(_)
RootFileTechnologies(rootFiles) ==
  IF rootFiles = <<>> THEN <<>>
  ELSE LET fileLower == ToLowerCase(Head(rootFiles))
           hit == SelectSeq(SpecialFiles,
                            LAMBDA e : \/ fileLower = ToLowerCase(e[1])
                                       \/ Includes(fileLower, ToLowerCase(e[1])))
       IN [i \in DOMAIN hit |-> hit[i][2]] \o RootFileTechnologies(Tail(rootFiles))

ExtractTechnologiesFromRootFiles(rootFiles) == Dedup(RootFileTechnologies(rootFiles))

FindSkillsInText(txt, skillNames) ==
  SelectSeq(skillNames,
            LAMBDA name : IsWholeWordMatch(ToLowerCase(txt), ToLowerCase(name)))

\* the variant of increment that stores the count instead of adding it
IncrementOverwrite(techCounts, tech, count) ==
  IF \E i \in DOMAIN techCounts : techCounts[i][1] = tech
    THEN [i \in DOMAIN techCounts |->
            IF techCounts[i][1] = tech THEN <<tech, count>> ELSE techCounts[i]]
    ELSE Append(techCounts, <<tech, count>>)

\* increment: techCounts.set(tech, (techCounts.get(tech) || 0) + count); the
\* Map is a list of <<key, weight>> in the order the keys were first set
Increment(techCounts, tech, count) ==
  IF \E i \in DOMAIN techCounts : techCounts[i][1] = tech
    THEN [i \in DOMAIN techCounts |->
            IF techCounts[i][1] = tech
              THEN <<tech, techCounts[i][2] + count>> ELSE techCounts[i]]
    ELSE Append(techCounts, <<tech, count>>)

\* for (const tech of techs) increment(tech, count)
RECURSIVE IncrementEach(_, _, _)
IncrementEach(techCounts, techs, count) ==
  IF techs = <<>> THEN techCounts
  ELSE IncrementEach(Increment(techCounts, Head(techs), count), Tail(techs), count)

\* a string that is neither null, undefined nor empty
Truthy(opt) == opt # Undefined /\ opt[1] # <<>>

\* for (const [lang, bytes] of Object.entries(repo.languages)) ...
RECURSIVE IncrementLanguages(_, _)
IncrementLanguages(techCounts, languages) ==
  IF languages = <<>> THEN techCounts
  ELSE LET lang == Head(languages)[1]
           weight == Min(Head(languages)[2] \div 10000, 10)
       IN IncrementLanguages(
            IF weight > 0 THEN Increment(techCounts, lang, 2 * weight) ELSE techCounts,
            Tail(languages))

\* the body of the loop over data.repos
ExtractRepo(techCounts, repo, skillNames) ==
  LET t1 == IF Truthy(repo.language)
              THEN Increment(techCounts, repo.language[1], 2 * 5) ELSE techCounts
      t2 == IncrementLanguages(t1, repo.languages)
      t3 == IncrementEach(t2, repo.topics, 2 * 2)
      t4 == IF Len(repo.rootFiles) > 0
              THEN IncrementEach(t3, ExtractTechnologiesFromRootFiles(repo.rootFiles),
                                 2 * 3)
              ELSE t3
  IN IF Truthy(repo.readme) /\ skillNames # Undefined /\ Len(skillNames[1]) > 0
       THEN IncrementEach(t4, FindSkillsInText(repo.readme[1], skillNames[1]), 2 * 1)
       ELSE t4

\* the body of the loop over data.commits
ExtractCommit(techCounts, commit) ==
  IncrementEach(techCounts,
                ExtractTechnologiesFromCommit(commit.message, commit.filesChanged),
                2 * 1)

\* the body of the loop over data.pullRequests
ExtractPR(techCounts, pr) ==
  IncrementEach(techCounts, ExtractTechnologiesFromPR(pr.title, pr.body), 2 * 2)

\* the body of the loop over data.stars: 0.5 each
ExtractStar(techCounts, star) ==
  IncrementEach(IF Truthy(star.language)
                  THEN Increment(techCounts, star.language[1], 1) ELSE techCounts,
                star.topics, 1)

\* the loop the function is in once `at` records have been read of each list
ExtractLoop(data, at) ==
  CASE at.repos < Len(data.repos) -> "repos"
    [] at.repos = Len(data.repos) /\ at.commits < Len(data.commits) -> "commits"
    [] at.repos = Len(data.repos) /\ at.commits = Len(data.commits)
         /\ at.pullRequests < Len(data.pullRequests) -> "pullRequests"
    [] at.repos = Len(data.repos) /\ at.commits = Len(data.commits)
         /\ at.pullRequests = Len(data.pullRequests)
         /\ at.stars < Len(data.stars) -> "stars"
    [] OTHER -> "return"

ExtractStart == [repos |-> 0, commits |-> 0, pullRequests |-> 0, stars |-> 0]

\* extractAllTechnologies(data, skillNames), from the point `at` on
RECURSIVE ExtractFrom(_, _, _, _)
ExtractFrom(techCounts, data, skillNames, at) ==
  LET loop == ExtractLoop(data, at)
      next == [at EXCEPT ![loop] = @ + 1]
  IN CASE loop = "repos" ->
            ExtractFrom(ExtractRepo(techCounts, data.repos[at.repos + 1], skillNames),
                        data, skillNames, next)
       [] loop = "commits" ->
            ExtractFrom(ExtractCommit(techCounts, data.commits[at.commits + 1]),
                        data, skillNames, next)
       [] loop = "pullRequests" ->
            ExtractFrom(ExtractPR(techCounts, data.pullRequests[at.pullRequests + 1]),
                        data, skillNames, next)
       [] loop = "stars" ->
            ExtractFrom(ExtractStar(techCounts, data.stars[at.stars + 1]),
                        data, skillNames, next)
       [] OTHER -> techCounts

ExtractAllTechnologies(data, skillNames) ==
  ExtractFrom(<<>>, data, skillNames, ExtractStart)

\* The corpora extraction is run on
ExtractCorpora ==
  {[repos |-> r, pullRequests |-> p, commits |-> c, stars |-> st] :
     r \in Arrangements(RepoPool),
     p \in Arrangements(
            {PRReactive,
             [number |-> 4, title |-> Str.prJavaFix, body |-> Undefined,
              state |-> "closed", merged |-> TRUE,
              url |-> "https://github.com/u/app/pull/4"]}),
     c \in Arrangements(CommitPool),
     st \in Arrangements(
             {StarAwesome,
              [fullName |-> "awesome/tools", url |-> "https://github.com/awesome/tools",
               language |-> Given(Str.typeScript),
               topics |-> <<Str.react, Str.tools, ToLowerCase(Str.typeScript)>>,
               description |-> Undefined]})}

ExRepo ==
  /\ exPc = "run"
  /\ ExtractLoop(exData, exAt) = "repos"
  /\ exTechCounts' = ExtractRepo(exTechCounts, exData.repos[exAt.repos + 1], exSkillNames)
  /\ exAt' = [exAt EXCEPT !.repos = @ + 1]
  /\ UNCHANGED <<exData, exSkillNames, exPc, exOthers>>

ExCommit ==
  /\ exPc = "run"
  /\ ExtractLoop(exData, exAt) = "commits"
  /\ exTechCounts' = ExtractCommit(exTechCounts, exData.commits[exAt.commits + 1])
  /\ exAt' = [exAt EXCEPT !.commits = @ + 1]
  /\ UNCHANGED <<exData, exSkillNames, exPc, exOthers>>

ExPR ==
  /\ exPc = "run"
  /\ ExtractLoop(exData, exAt) = "pullRequests"
  /\ exTechCounts' = ExtractPR(exTechCounts, exData.pullRequests[exAt.pullRequests + 1])
  /\ exAt' = [exAt EXCEPT !.pullRequests = @ + 1]
  /\ UNCHANGED <<exData, exSkillNames, exPc, exOthers>>

ExStar ==
  /\ exPc = "run"
  /\ ExtractLoop(exData, exAt) = "stars"
  /\ exTechCounts' = ExtractStar(exTechCounts, exData.stars[exAt.stars + 1])
  /\ exAt' = [exAt EXCEPT !.stars = @ + 1]
  /\ UNCHANGED <<exData, exSkillNames, exPc, exOthers>>

ExReturn ==
  /\ exPc = "run"
  /\ ExtractLoop(exData, exAt) = "return"
  /\ exPc' = "done"
  /\ UNCHANGED <<exData, exSkillNames, exTechCounts, exAt, exOthers>>

ExNext ==
  \/ ExRepo
  \/ ExCommit
  \/ ExPR
  \/ ExStar
  \/ ExReturn

\* extraction at rest, while another component runs
ExIdle ==
  /\ exData = <<>>
  /\ exSkillNames = Undefined
  /\ exTechCounts = <<>>
  /\ exAt = ExtractStart
  /\ exPc = "idle"

\* the orders a list can be given in
Reorderings(s) ==
  {[i \in DOMAIN s |-> s[p[i]]] : p \in Permutations(DOMAIN s)}

ExReordered ==
  {[repos |-> r, pullRequests |-> p, commits |-> c, stars |-> st] :
     r \in Reorderings(exData.repos), p \in Reorderings(exData.pullRequests),
     c \in Reorderings(exData.commits), st \in Reorderings(exData.stars)}

\* the keys of a table with their weights
TableEntries(techCounts) == {techCounts[i] : i \in DOMAIN techCounts}

\* C10: the weighted term table of extractAllTechnologies does not depend on
\* processing order: permuting the repositories, the commits, the pull
\* requests or the starred repositories of the corpus yields a table with
\* the same keys and the same accumulated weight per key.
C10_TableIndependentOfOrder ==
  exPc = "done" =>
    \A other \in ExReordered :
      TableEntries(ExtractAllTechnologies(other, exSkillNames))
        = TableEntries(exTechCounts)

\* C10 witness: a corpus with several records of every kind, a key that two
\* records both add to, and a reordering that fills the table in another
\* key order.
C10_Witness ==
  /\ exPc = "done"
  /\ Len(exData.repos) >= 2 /\ Len(exData.commits) >= 2
  /\ Len(exData.pullRequests) >= 2 /\ Len(exData.stars) >= 2
  /\ \E i \in DOMAIN exTechCounts :
       /\ exTechCounts[i][1] = Str.react
       /\ exTechCounts[i][2] > 2 * 2
  /\ \E other \in ExReordered :
       ExtractAllTechnologies(other, exSkillNames) # exTechCounts

\* C11: every key of the table extractAllTechnologies returns is lowercase, so
\* that spellings of one term that differ only in case ('TypeScript' as a
\* repository language, 'typescript' as a topic) add up in a single entry.
C11_KeysLowercase ==
  exPc = "done" =>
    /\ \A i \in DOMAIN exTechCounts :
         exTechCounts[i][1] = ToLowerCase(exTechCounts[i][1])
    /\ \A i, j \in DOMAIN exTechCounts :
         ToLowerCase(exTechCounts[i][1]) = ToLowerCase(exTechCounts[j][1]) => i = j

----------------------------------------------------------------------------
(* SkillMatcher: src/unnamed/part_006, over the catalog client              *)
(* src/src/topcoder/skills-api.ts                                           *)

\* config.shortTermExpansions, as src/src/__tests__/config.test.ts pins it
ShortTermExpansions ==
  << <<Str.js, Str.javascript>>, <<Str.ts, ToLowerCase(Str.typeScript)>>,
     <<Str.py, Str.python>>, <<Str.rb, Str.ruby>> >>

\* a slip of expandTerm: the lowercased term is returned when no entry exists
ExpandTermLowercased(term) ==
  LET termLower == ToLowerCase(term)
      hits == {i \in DOMAIN ShortTermExpansions :
                 ShortTermExpansions[i][1] = termLower}
  IN IF hits # {} THEN ShortTermExpansions[CHOOSE i \in hits : TRUE][2]
     ELSE termLower

\* expandTerm of the matcher, expandShortTerm of skill-matcher.ts
ExpandTerm(term) ==
  LET termLower == ToLowerCase(term)
      hits == {i \in DOMAIN ShortTermExpansions :
                 ShortTermExpansions[i][1] = termLower}
  IN IF hits # {} THEN ShortTermExpansions[CHOOSE i \in hits : TRUE][2]
     ELSE term

IsReasonableMatch(query, skillName) ==
  LET queryLower == ToLowerCase(query)
      skillLower == ToLowerCase(skillName)
      StartsWith(s, p) == Len(p) <= Len(s) /\ SubSeq(s, 1, Len(p)) = p
      \* s.replace(/[.\s-]/g, '')
      Strip(s) == SelectSeq(s, LAMBDA c : c \notin {".", " ", "-"})
  IN IF skillLower = queryLower THEN TRUE
     ELSE IF StartsWith(skillLower, queryLower) THEN TRUE
     ELSE IF StartsWith(queryLower, Strip(skillLower)) THEN TRUE
     ELSE IF IsWholeWordMatch(skillLower, queryLower) THEN TRUE
     ELSE IF Includes(skillLower, queryLower) /\ Len(queryLower) >= 3
       THEN ~(Len(skillLower) > Len(queryLower) * 4)
     ELSE \/ Strip(skillLower) = Strip(queryLower)
          \/ StartsWith(Strip(skillLower), Strip(queryLower))

\* The skills of the remote catalog the runs are checked against; an id is
\* modelled by its number
Catalog ==
  << [id |-> 1, name |-> Str.javaScript], [id |-> 2, name |-> Str.typeScript],
     [id |-> 4, name |-> Str.reactJsName], [id |-> 5, name |-> Str.sql],
     [id |-> 6, name |-> Str.mySqlServer], [id |-> 7, name |-> Str.javaLang] >>

\* What the remote endpoints answer for a term: the skills whose name holds
\* the term or is held by it, in catalog order; the fuzzy endpoint compares
\* the names without dots, spaces and dashes
RemoteResponse(endpoint, term, catalog) ==
  LET t == ToLowerCase(term)
  IN SelectSeq(catalog,
       LAMBDA s :
         IF endpoint = "autocomplete"
           THEN Includes(ToLowerCase(s.name), t) \/ Includes(t, ToLowerCase(s.name))
           ELSE Includes(Normalize(s.name), Normalize(t))
                  \/ Includes(Normalize(t), Normalize(s.name)))

\* cacheSkills: skillCache.set(skill.name.toLowerCase(), skill) for each skill
RECURSIVE CacheSkills(_, _)
CacheSkills(skillCache, skills) ==
  IF skills = <<>> THEN skillCache
  ELSE LET skill == Head(skills)
           key == ToLowerCase(skill.name)
           at == {i \in DOMAIN skillCache : skillCache[i][1] = key}
       IN CacheSkills(
            IF at = {} THEN Append(skillCache, <<key, skill>>)
            ELSE [i \in DOMAIN skillCache |->
                    IF i \in at THEN <<key, skill>> ELSE skillCache[i]],
            Tail(skills))

\* serve-stale variant of a remote call: on failure the cached skills are
\* returned instead of nothing
RemoteSearchStale(endpoint, term, size, skillCache, catalog, failing) ==
  IF Len(term) < 2
    THEN [skills |-> <<>>, skillCache |-> skillCache, calls |-> <<>>]
  ELSE IF term \in failing
    THEN [skills |-> [i \in DOMAIN skillCache |-> skillCache[i][2]],
          skillCache |-> skillCache,
          calls |-> << <<endpoint, term, FALSE>> >>]
  ELSE LET skills == Take(RemoteResponse(endpoint, term, catalog), size)
       IN [skills |-> skills, skillCache |-> CacheSkills(skillCache, skills),
           calls |-> << <<endpoint, term, TRUE>> >>]

\* autocomplete(term, size) and fuzzyMatch(term, size): the skills returned,
\* the cache afterwards and the remote call made; a failing request (network
\* error or non-OK response) returns no skill and caches nothing
RemoteSearch(endpoint, term, size, skillCache, catalog, failing) ==
  IF Len(term) < 2
    THEN [skills |-> <<>>, skillCache |-> skillCache, calls |-> <<>>]
  ELSE IF term \in failing
    THEN [skills |-> <<>>, skillCache |-> skillCache,
          calls |-> << <<endpoint, term, FALSE>> >>]
  ELSE LET skills == Take(RemoteResponse(endpoint, term, catalog), size)
       IN [skills |-> skills, skillCache |-> CacheSkills(skillCache, skills),
           calls |-> << <<endpoint, term, TRUE>> >>]

\* searchSkillsAsync without the look into the local cache
SearchSkillsAsyncNoCache(query, skillCache, catalog, failing) ==
  LET queryLower == ToLowerCase(query)
      ac == RemoteSearch("autocomplete", query, 5, skillCache, catalog, failing)
      exact == {i \in DOMAIN ac.skills : ToLowerCase(ac.skills[i].name) = queryLower}
      fz == RemoteSearch("fuzzymatch", query, 5, ac.skillCache, catalog, failing)
  IN IF Len(ac.skills) > 0
       THEN [results |-> IF exact # {}
                           THEN <<ac.skills[CHOOSE i \in exact :
                                              \A j \in exact : i <= j]>>
                           ELSE ac.skills,
             skillCache |-> ac.skillCache, calls |-> ac.calls]
     ELSE [results |-> fz.skills, skillCache |-> fz.skillCache,
           calls |-> ac.calls \o fz.calls]

\* searchSkillsAsync(query): the results, the cache afterwards and the remote
\* calls made
SearchSkillsAsync(query, skillCache, catalog, failing) ==
  LET inner == {i \in DOMAIN query : query[i] # " "}
      trimmed == IF inner = {} THEN <<>>
                 ELSE SubSeq(query, CHOOSE i \in inner : \A j \in inner : i <= j,
                             CHOOSE i \in inner : \A j \in inner : j <= i)
      queryLower == ToLowerCase(trimmed)
      cached == {i \in DOMAIN skillCache : skillCache[i][1] = queryLower}
      ac == RemoteSearch("autocomplete", query, 5, skillCache, catalog, failing)
      exact == {i \in DOMAIN ac.skills : ToLowerCase(ac.skills[i].name) = queryLower}
      fz == RemoteSearch("fuzzymatch", query, 5, ac.skillCache, catalog, failing)
  IN IF queryLower = <<>>
       THEN [results |-> <<>>, skillCache |-> skillCache, calls |-> <<>>]
     ELSE IF cached # {}
       THEN [results |-> <<skillCache[CHOOSE i \in cached : TRUE][2]>>,
             skillCache |-> skillCache, calls |-> <<>>]
     ELSE IF Len(ac.skills) > 0
       THEN [results |-> IF exact # {}
                           THEN <<ac.skills[CHOOSE i \in exact :
                                              \A j \in exact : i <= j]>>
                           ELSE ac.skills,
             skillCache |-> ac.skillCache, calls |-> ac.calls]
     ELSE [results |-> fz.skills, skillCache |-> fz.skillCache,
           calls |-> ac.calls \o fz.calls]

\* first reasonable result instead of the first result
CandidateAnyResult(searchTerm, searchResults) ==
  LET ok == {i \in DOMAIN searchResults :
               IsReasonableMatch(searchTerm, searchResults[i].name)}
  IN IF ok = {} THEN <<>>
     ELSE <<searchResults[CHOOSE i \in ok : \A j \in ok : i <= j]>>

\* the candidate a term is credited to: searchResults[0] if it is a
\* reasonable match, none otherwise
Candidate(searchTerm, searchResults) ==
  IF Len(searchResults) > 0 /\ IsReasonableMatch(searchTerm, searchResults[1].name)
    THEN <<searchResults[1]>>
    ELSE <<>>

\* a later term replaces the score of an earlier one
AccumulateOverwrite(skillScores, bestMatch, tech, count) ==
  LET existing == {i \in DOMAIN skillScores : skillScores[i].skill.id = bestMatch.id}
  IN IF existing # {}
       THEN [i \in DOMAIN skillScores |->
               IF i \in existing
                 THEN [skillScores[i] EXCEPT
                         !.score = count,
                         !.terms = IF tech \in Range(@) THEN @ ELSE Append(@, tech)]
                 ELSE skillScores[i]]
       ELSE Append(skillScores, [skill |-> bestMatch, score |-> count, terms |-> <<tech>>])

\* skillScores after an accepted term: the Map is keyed by bestMatch.id and
\* keeps insertion order
Accumulate(skillScores, bestMatch, tech, count) ==
  LET existing == {i \in DOMAIN skillScores : skillScores[i].skill.id = bestMatch.id}
  IN IF existing # {}
       THEN [i \in DOMAIN skillScores |->
               IF i \in existing
                 THEN [skillScores[i] EXCEPT
                         !.score = @ + count,
                         !.terms = IF tech \in Range(@) THEN @ ELSE Append(@, tech)]
                 ELSE skillScores[i]]
       ELSE Append(skillScores, [skill |-> bestMatch, score |-> count, terms |-> <<tech>>])

\* the loop body without the test of the search term's length
MatchTermNoSkip(st, tech, count, catalog, failing) ==
  LET searchTerm == ExpandTerm(tech)
      found == SearchSkillsAsync(searchTerm, st.skillCache, catalog, failing)
      accepted == Candidate(searchTerm, found.results)
  IN [skillScores |->
        IF accepted # <<>>
          THEN Accumulate(st.skillScores, accepted[1], tech, count)
          ELSE st.skillScores,
      skillCache |-> found.skillCache,
      lookups |-> Append(st.lookups,
                         [tech |-> tech, searchTerm |-> searchTerm,
                          cacheBefore |-> st.skillCache,
                          results |-> found.results, calls |-> found.calls])]

\* The body of the loop over techCounts.entries(). st holds skillScores, the
\* client's skillCache and, per term searched, the cache it met, what the
\* search returned and the remote calls it made
MatchTerm(st, tech, count, catalog, failing) ==
  LET searchTerm == ExpandTerm(tech)
      found == SearchSkillsAsync(searchTerm, st.skillCache, catalog, failing)
      accepted == Candidate(searchTerm, found.results)
  IN IF Len(searchTerm) < 2 THEN st
     ELSE [skillScores |->
             IF accepted # <<>>
               THEN Accumulate(st.skillScores, accepted[1], tech, count)
               ELSE st.skillScores,
           skillCache |-> found.skillCache,
           lookups |-> Append(st.lookups,
                              [tech |-> tech, searchTerm |-> searchTerm,
                               cacheBefore |-> st.skillCache,
                               results |-> found.results, calls |-> found.calls])]

\* the sort call left out
SortMatchedNone(matchedSkills) == matchedSkills

\* matchedSkills.sort((a, b) => b.rawScore - a.rawScore)
SortMatched(matchedSkills) ==
  SortByDesc(matchedSkills, [m \in Range(matchedSkills) |-> m.rawScore])

\* Array.from(skillScores.values()).map(...), then the sort
MatchedSkills(skillScores) ==
  SortMatched([i \in DOMAIN skillScores |->
                 [skill |-> skillScores[i].skill,
                  matchedTerms |-> skillScores[i].terms,
                  rawScore |-> skillScores[i].score]])

RECURSIVE MatchFrom(_, _, _, _)
MatchFrom(st, techCounts, catalog, failing) ==
  IF techCounts = <<>> THEN st
  ELSE MatchFrom(MatchTerm(st, Head(techCounts)[1], Head(techCounts)[2],
                           catalog, failing),
                 Tail(techCounts), catalog, failing)

\* matchTechnologies(techCounts) on a client whose cache is skillCache
MatchTechnologies(techCounts, skillCache, catalog, failing) ==
  MatchedSkills(
    MatchFrom([skillScores |-> <<>>, skillCache |-> skillCache, lookups |-> <<>>],
              techCounts, catalog, failing).skillScores)

\* Bound of the term tables a run is given
MaxTable == 2

MtTerm ==
  /\ mtPc = "run"
  /\ mtAt < Len(mtTechCounts)
  /\ LET st == MatchTerm([skillScores |-> mtSkillScores, skillCache |-> mtSkillCache,
                          lookups |-> mtLookups],
                         mtTechCounts[mtAt + 1][1], mtTechCounts[mtAt + 1][2],
                         mtCatalog, mtFailing)
     IN /\ mtSkillScores' = st.skillScores
        /\ mtSkillCache' = st.skillCache
        /\ mtLookups' = st.lookups
  /\ mtAt' = mtAt + 1
  /\ UNCHANGED <<mtTechCounts, mtCatalog, mtFailing, mtInferred, mtInferScores,
                 mtInferAt, mtResult, mtPc, mtOthers>>

MtReturn ==
  /\ mtPc = "run"
  /\ mtAt = Len(mtTechCounts)
  /\ mtResult' = MatchedSkills(mtSkillScores)
  /\ mtPc' = "done"
  /\ UNCHANGED <<mtTechCounts, mtCatalog, mtFailing, mtAt, mtSkillScores,
                 mtSkillCache, mtLookups, mtInferred, mtInferScores, mtInferAt,
                 mtOthers>>

MtNext ==
  \/ MtTerm
  \/ MtReturn

\* the matcher at rest, while another component runs
MtIdle ==
  /\ mtTechCounts = <<>>
  /\ mtCatalog = <<>>
  /\ mtFailing = {}
  /\ mtAt = 0
  /\ mtSkillScores = <<>>
  /\ mtSkillCache = <<>>
  /\ mtLookups = <<>>
  /\ mtInferred = <<>>
  /\ mtInferScores = <<>>
  /\ mtInferAt = <<0, 0>>
  /\ mtResult = <<>>
  /\ mtPc = "idle"

\* the searches of the run whose first result was a reasonable match of the
\* skill with this id, and the weight the table gives a term
MtAcceptedFor(id) ==
  {i \in DOMAIN mtLookups :
     /\ mtLookups[i].results # <<>>
     /\ mtLookups[i].results[1].id = id
     /\ IsReasonableMatch(mtLookups[i].searchTerm, mtLookups[i].results[1].name)}

MtWeightOf(tech) ==
  mtTechCounts[CHOOSE i \in DOMAIN mtTechCounts : mtTechCounts[i][1] = tech][2]

RECURSIVE MtWeightSum(_)
MtWeightSum(lookupSet) ==
  IF lookupSet = {} THEN 0
  ELSE LET i == CHOOSE k \in lookupSet : TRUE
       IN MtWeightOf(mtLookups[i].tech) + MtWeightSum(lookupSet \ {i})

\* C12: the list matchTechnologies returns holds exactly one MatchedSkill per
\* distinct skill id among the accepted candidates, and the rawScore of each
\* is the sum of the weights of all the terms accepted for its id.
C12_OneMatchPerIdWithSummedWeights ==
  mtPc = "done" =>
    /\ \A i, j \in DOMAIN mtResult :
         mtResult[i].skill.id = mtResult[j].skill.id => i = j
    /\ {mtResult[i].skill.id : i \in DOMAIN mtResult}
         = {s.id : s \in {c \in Range(mtCatalog) : MtAcceptedFor(c.id) # {}}}
    /\ \A i \in DOMAIN mtResult :
         /\ mtResult[i].rawScore = MtWeightSum(MtAcceptedFor(mtResult[i].skill.id))
         /\ Range(mtResult[i].matchedTerms)
              = {mtLookups[k].tech : k \in MtAcceptedFor(mtResult[i].skill.id)}

\* C12 witness: a returned skill two terms of different weight were accepted
\* for, next to another skill.
C12_Witness ==
  /\ mtPc = "done"
  /\ \E i \in DOMAIN mtResult :
       /\ Len(mtResult[i].matchedTerms) = 2
       /\ MtWeightOf(mtResult[i].matchedTerms[1]) # MtWeightOf(mtResult[i].matchedTerms[2])

\* C13: the list matchTechnologies returns is ordered by non-increasing
\* rawScore.
C13_SortedByRawScoreDescending ==
  mtPc = "done" =>
    \A i, j \in DOMAIN mtResult :
      i < j => mtResult[i].rawScore >= mtResult[j].rawScore

\* C13 witness: a returned list of two skills of different score, the one
\* matched last listed first.
C13_Witness ==
  /\ mtPc = "done"
  /\ Len(mtResult) = 2
  /\ mtResult[1].rawScore > mtResult[2].rawScore
  /\ mtResult[1].skill.id = mtSkillScores[2].skill.id

\* C14: in the list matchTechnologies returns, two MatchedSkills of equal
\* rawScore are ordered by catalog id ascending, whatever the order of the
\* term table.
C14_TiesOrderedByIdAscending ==
  mtPc = "done" =>
    \A i, j \in DOMAIN mtResult :
      (i < j /\ mtResult[i].rawScore = mtResult[j].rawScore)
        => mtResult[i].skill.id < mtResult[j].skill.id

\* C15: a term is credited to a skill (weight added, term recorded in
\* matchedTerms) only if the first search result for the expanded term is a
\* reasonable match, and then to that result only; when the first result is
\* rejected the term is credited to no skill.
C15_OnlyFirstResultIsCandidate ==
  mtPc = "done" =>
    \A k \in DOMAIN mtLookups :
      LET l == mtLookups[k]
          credited == {i \in DOMAIN mtResult : l.tech \in Range(mtResult[i].matchedTerms)}
      IN IF l.results # <<>> /\ IsReasonableMatch(l.searchTerm, l.results[1].name)
           THEN \A i \in DOMAIN mtResult :
                  i \in credited <=> mtResult[i].skill.id = l.results[1].id
           ELSE credited = {}

\* C15 witness: a search whose first result is rejected while a later result
\* would have been a reasonable match.
C15_Witness ==
  /\ mtPc = "done"
  /\ \E k \in DOMAIN mtLookups :
       LET l == mtLookups[k]
       IN /\ Len(l.results) >= 2
          /\ ~IsReasonableMatch(l.searchTerm, l.results[1].name)
          /\ \E r \in 2..Len(l.results) :
               IsReasonableMatch(l.searchTerm, l.results[r].name)

\* getImpliedSkills(skillName) over a sample config.skillHierarchy; weights
\* are counted in tenths
GetImpliedSkills(skillName) ==
  LET hierarchy ==
        << <<Str.reactJs, [implies |-> <<Str.javaScript, Str.ruby>>, weight |-> Undefined]>>,
           <<Str.javaLang, [implies |-> <<Str.mysql>>, weight |-> Given(5)]>> >>
      skillLower == ToLowerCase(skillName)
      hits == {i \in DOMAIN hierarchy : ToLowerCase(hierarchy[i][1]) = skillLower}
  IN IF hits = {} THEN <<>>
     ELSE LET entry == hierarchy[CHOOSE i \in hits : \A j \in hits : i <= j][2]
              weight == IF entry.weight = Undefined THEN 7 ELSE entry.weight[1]
          IN [k \in DOMAIN entry.implies |-> [skill |-> entry.implies[k], weight |-> weight]]

\* inference that credits the top hit for an implied name without the
\* reasonable-match check
InferStepUnchecked(st, from, imp, found) ==
  LET accepted == Take(found.results, 1)
      existing == IF accepted = <<>> THEN {}
                  ELSE {i \in DOMAIN st.scores : st.scores[i].skill.id = accepted[1].id}
      amount == from.score * imp.weight
  IN [scores |->
        IF accepted = <<>> THEN st.scores
        ELSE IF existing # {}
          THEN [i \in DOMAIN st.scores |->
                  IF i \in existing
                    THEN [st.scores[i] EXCEPT
                            !.score = @ + amount,
                            !.inferredFrom = IF from.skill.name \in Range(@) THEN @
                                             ELSE Append(@, from.skill.name)]
                    ELSE st.scores[i]]
          ELSE Append(st.scores,
                      [skill |-> accepted[1], score |-> amount, terms |-> <<>>,
                       inferredFrom |-> <<from.skill.name>>]),
      inferred |-> Append(st.inferred,
                          [from |-> from, implied |-> imp.skill,
                           weight |-> imp.weight, results |-> found.results])]

\* Phase 2, hierarchical inference, for one directly matched skill `from` and
\* one skill it implies, `found` being what the catalog search for the
\* implied name returned: if the candidate is a reasonable match,
\* from.score * weight is added to the candidate's score and from's name is
\* recorded in its inferredFrom. Scores are counted in tenths
InferStep(st, from, imp, found) ==
  LET accepted == Candidate(imp.skill, found.results)
      existing == IF accepted = <<>> THEN {}
                  ELSE {i \in DOMAIN st.scores : st.scores[i].skill.id = accepted[1].id}
      amount == from.score * imp.weight
  IN [scores |->
        IF accepted = <<>> THEN st.scores
        ELSE IF existing # {}
          THEN [i \in DOMAIN st.scores |->
                  IF i \in existing
                    THEN [st.scores[i] EXCEPT
                            !.score = @ + amount,
                            !.inferredFrom = IF from.skill.name \in Range(@) THEN @
                                             ELSE Append(@, from.skill.name)]
                    ELSE st.scores[i]]
          ELSE Append(st.scores,
                      [skill |-> accepted[1], score |-> amount, terms |-> <<>>,
                       inferredFrom |-> <<from.skill.name>>]),
      inferred |-> Append(st.inferred,
                          [from |-> from, implied |-> imp.skill,
                           weight |-> imp.weight, results |-> found.results])]

\* the (directly matched skill, implied skill) pairs Phase 2 has still to
\* handle, by position: mtInferAt is the pair handled last
InferPending ==
  {p \in UNION {{<<i, j>> : j \in 1..Len(GetImpliedSkills(mtSkillScores[i].skill.name))} :
                  i \in DOMAIN mtSkillScores} :
     \/ p[1] > mtInferAt[1]
     \/ p[1] = mtInferAt[1] /\ p[2] > mtInferAt[2]}

\* one implied skill of one directly matched skill: the catalog search for
\* the implied name, then the credit
MtInfer ==
  /\ mtPc = "run"
  /\ mtAt = Len(mtTechCounts)
  /\ InferPending # {}
  /\ \E p \in {a \in InferPending :
                  \A b \in InferPending : a[1] < b[1] \/ (a[1] = b[1] /\ a[2] <= b[2])} :
       \E imp \in {GetImpliedSkills(mtSkillScores[p[1]].skill.name)[p[2]]} :
         \E found \in {SearchSkillsAsync(imp.skill, mtSkillCache, mtCatalog, mtFailing)} :
           \E st \in {InferStep([scores |-> mtInferScores, inferred |-> mtInferred],
                                mtSkillScores[p[1]], imp, found)} :
             /\ mtInferScores' = st.scores
             /\ mtSkillCache' = found.skillCache
             /\ mtInferred' = st.inferred
             /\ mtInferAt' = p
  /\ UNCHANGED <<mtTechCounts, mtCatalog, mtFailing, mtAt, mtSkillScores,
                 mtLookups, mtResult, mtPc, mtOthers>>

\* the end of matchTechnologies with Phase 2: the conversion and the sort.
\* A directly matched skill keeps its place in skillScores, its score being
\* ten times the direct score (tenths) plus what was inferred for it
MtInferReturn ==
  /\ mtPc = "run"
  /\ mtAt = Len(mtTechCounts)
  /\ InferPending = {}
  /\ LET inferredFor(id) == {i \in DOMAIN mtInferScores : mtInferScores[i].skill.id = id}
         direct == [i \in DOMAIN mtSkillScores |->
                      LET also == inferredFor(mtSkillScores[i].skill.id)
                      IN [skill |-> mtSkillScores[i].skill,
                          matchedTerms |-> mtSkillScores[i].terms,
                          rawScore |-> 10 * mtSkillScores[i].score
                                         + (IF also = {} THEN 0
                                            ELSE mtInferScores[CHOOSE k \in also : TRUE].score),
                          inferredFrom |->
                            IF also = {} THEN <<>>
                            ELSE mtInferScores[CHOOSE k \in also : TRUE].inferredFrom]]
         indirect == SelectSeq(mtInferScores,
                               LAMBDA e : \A i \in DOMAIN mtSkillScores :
                                            mtSkillScores[i].skill.id # e.skill.id)
     IN mtResult' = SortMatched(direct \o
                                  [i \in DOMAIN indirect |->
                                     [skill |-> indirect[i].skill,
                                      matchedTerms |-> indirect[i].terms,
                                      rawScore |-> indirect[i].score,
                                      inferredFrom |-> indirect[i].inferredFrom]])
  /\ mtPc' = "done"
  /\ UNCHANGED <<mtTechCounts, mtCatalog, mtFailing, mtAt, mtSkillScores,
                 mtSkillCache, mtLookups, mtInferred, mtInferScores, mtInferAt,
                 mtOthers>>

\* the implied names of the run that resolved to the skill with this id and
\* passed the reasonable-match check, and what they add to its score
MtValidImplied(id) ==
  {k \in DOMAIN mtInferred :
     /\ mtInferred[k].results # <<>>
     /\ mtInferred[k].results[1].id = id
     /\ IsReasonableMatch(mtInferred[k].implied, mtInferred[k].results[1].name)}

RECURSIVE MtImpliedSum(_)
MtImpliedSum(inferredSet) ==
  IF inferredSet = {} THEN 0
  ELSE LET k == CHOOSE i \in inferredSet : TRUE
       IN mtInferred[k].from.score * mtInferred[k].weight
            + MtImpliedSum(inferredSet \ {k})

\* C16: hierarchy inference adds a contribution to a skill only for an
\* implied name that resolved to it through the catalog and passed
\* isReasonableMatch: every returned rawScore is the direct score plus the
\* contributions of the validated implied names, and a skill that was not
\* matched directly and has no validated implied name is not returned.
C16_InferenceOnlyAfterValidation ==
  mtPc = "done" =>
    /\ {mtResult[i].skill.id : i \in DOMAIN mtResult}
         = {mtSkillScores[i].skill.id : i \in DOMAIN mtSkillScores}
             \cup {c.id : c \in {s \in Range(mtCatalog) : MtValidImplied(s.id) # {}}}
    /\ \A i \in DOMAIN mtResult :
         LET direct == {d \in DOMAIN mtSkillScores :
                          mtSkillScores[d].skill.id = mtResult[i].skill.id}
             valid == MtValidImplied(mtResult[i].skill.id)
         IN /\ mtResult[i].rawScore
                 = (IF direct = {} THEN 0
                    ELSE 10 * mtSkillScores[CHOOSE d \in direct : TRUE].score)
                   + MtImpliedSum(valid)
            /\ Range(mtResult[i].inferredFrom)
                 = {mtInferred[k].from.skill.name : k \in valid}

\* C16 witness: a run in which one implied name resolved and was credited,
\* one did not resolve and one resolved to a candidate the check rejected.
C16_Witness ==
  /\ mtPc = "done"
  /\ \E i \in DOMAIN mtResult : mtResult[i].inferredFrom # <<>>
  /\ \E k \in DOMAIN mtInferred : mtInferred[k].results = <<>>
  /\ \E k \in DOMAIN mtInferred :
       /\ mtInferred[k].results # <<>>
       /\ ~IsReasonableMatch(mtInferred[k].implied, mtInferred[k].results[1].name)

\* C17: isReasonableMatch accepts a prefix relation between the term and the
\* candidate name, in either direction, only when the two lengths are close:
\* when one is a proper prefix of the other and the longer is more than twice
\* as long (term "javascript", candidate "Java"), the candidate is rejected.
C17_PrefixOnlyWithinTolerance ==
  \A k \in DOMAIN mtLookups :
    mtLookups[k].results # <<>> =>
      LET q == ToLowerCase(mtLookups[k].searchTerm)
          n == ToLowerCase(mtLookups[k].results[1].name)
          short == IF Len(q) < Len(n) THEN q ELSE n
          long == IF Len(q) < Len(n) THEN n ELSE q
      IN (Len(long) > 2 * Len(short) /\ SubSeq(long, 1, Len(short)) = short)
           => ~IsReasonableMatch(mtLookups[k].searchTerm, mtLookups[k].results[1].name)

\* the terms of the table whose catalog search failed in the run
MtFailedTerms ==
  {mtLookups[k].tech : k \in
     {i \in DOMAIN mtLookups :
        \E c \in DOMAIN mtLookups[i].calls : ~mtLookups[i].calls[c][3]}}

\* C18: when the catalog search fails for some of the terms, matchTechnologies
\* still returns, no failing term is credited to a skill, and the list
\* returned is the one returned for the table without the failing terms.
C18_FailingTermsContributeNothing ==
  mtPc = "done" =>
    /\ \A i \in DOMAIN mtResult :
         Range(mtResult[i].matchedTerms) \cap MtFailedTerms = {}
    /\ mtResult
         = MatchTechnologies(
             SelectSeq(mtTechCounts, LAMBDA e : e[1] \notin MtFailedTerms),
             <<>>, mtCatalog, mtFailing)

\* C18 witness: a run over two terms in which the search failed for one and
\* the other was credited to a skill.
C18_Witness ==
  /\ mtPc = "done"
  /\ Len(mtTechCounts) = 2
  /\ MtFailedTerms # {}
  /\ Len(mtResult) = 1

\* C19: within one run the remote catalog search is invoked at most once per
\* normalized term: a lookup of a term that normalizes to a term searched
\* earlier in the run, whatever that search returned, makes no remote call.
C19_RemoteSearchOncePerTerm ==
  \A i, j \in DOMAIN mtLookups :
    (i < j /\ ToLowerCase(mtLookups[i].searchTerm) = ToLowerCase(mtLookups[j].searchTerm))
      => mtLookups[j].calls = <<>>

\* C20: short-term expansion is idempotent: expanding an expanded term
\* changes nothing, and a term with no table entry, like a term that is
\* already an expansion, is returned unchanged.
C20_ExpandTermIdempotent ==
  \A k \in DOMAIN mtLookups :
    LET t == mtLookups[k].tech
        expanded == mtLookups[k].searchTerm
        keys == {ShortTermExpansions[i][1] : i \in DOMAIN ShortTermExpansions}
        canonical == {ShortTermExpansions[i][2] : i \in DOMAIN ShortTermExpansions}
    IN /\ ExpandTerm(expanded) = expanded
       /\ ToLowerCase(t) \notin keys => expanded = t
       /\ t \in canonical => expanded = t

\* C20 witness: a run that expanded a short term and looked up a capitalized
\* term that has no table entry.
C20_Witness ==
  /\ \E k \in DOMAIN mtLookups :
       /\ mtLookups[k].tech = Str.jsUpper
       /\ mtLookups[k].searchTerm = Str.javascript
  /\ \E k \in DOMAIN mtLookups : mtLookups[k].tech = Str.javaScript

----------------------------------------------------------------------------
(* loadSkillsConfig, clearConfigCache and getGitHubConfig                  *)
(* (src/src/topcoder/skill-matcher.ts).  A file is a record: whether it   *)
(* exists, and what JSON.parse makes of it (Undefined when reading or      *)
(* parsing throws).  A parsed object carries an identity, so that "the     *)
(* same object" and "an equal object" differ.                              *)

\* number of objects JSON.parse may create in one run
MaxLoads == 3

\* configPaths: CONSTANTS_PATH when set, then the project root, dist, src
ConfigPaths(customPath) ==
  (IF customPath = Undefined THEN <<>> ELSE <<customPath[1]>>)
    \o <<"cwd", "dist", "src">>

\* loadSkillsConfig that reads the files on every call
LoadSkillsConfigUncached(cached, customPath, files, nextId) ==
  LET paths == ConfigPaths(customPath)
      hits == {i \in DOMAIN paths :
                 files[paths[i]].exists /\ files[paths[i]].json # Undefined}
      stop == IF hits = {} THEN Len(paths)
              ELSE CHOOSE i \in hits : \A j \in hits : i <= j
      reads == SelectSeq(SubSeq(paths, 1, stop), LAMBDA p : files[p].exists)
  IN  IF hits = {}
      THEN [threw |-> TRUE, value |-> Undefined, cachedConfig |-> Undefined,
            reads |-> reads, nextId |-> nextId]
      ELSE LET obj == [id |-> nextId, content |-> files[paths[stop]].json[1]]
           IN  [threw |-> FALSE, value |-> Given(obj),
                cachedConfig |-> Given(obj), reads |-> reads,
                nextId |-> nextId + 1]

\* loadSkillsConfig(): the cached object when there is one; else the first
\* candidate path that exists and parses, which is cached; a path whose
\* file fails to parse is logged and skipped; no usable path throws.
LoadSkillsConfig(cached, customPath, files, nextId) ==
  IF cached # Undefined
  THEN [threw |-> FALSE, value |-> cached, cachedConfig |-> cached,
        reads |-> <<>>, nextId |-> nextId]
  ELSE LET paths == ConfigPaths(customPath)
           hits == {i \in DOMAIN paths :
                      files[paths[i]].exists /\ files[paths[i]].json # Undefined}
           stop == IF hits = {} THEN Len(paths)
                   ELSE CHOOSE i \in hits : \A j \in hits : i <= j
           reads == SelectSeq(SubSeq(paths, 1, stop), LAMBDA p : files[p].exists)
       IN  IF hits = {}
           THEN [threw |-> TRUE, value |-> Undefined, cachedConfig |-> Undefined,
                 reads |-> reads, nextId |-> nextId]
           ELSE LET obj == [id |-> nextId,
                            content |-> files[paths[stop]].json[1]]
                IN  [threw |-> FALSE, value |-> Given(obj),
                     cachedConfig |-> Given(obj), reads |-> reads,
                     nextId |-> nextId + 1]

\* getGitHubConfig(): config.github || { maxRepos: 500, ... }
GetGitHubConfig(config) ==
  IF config.github # Undefined
  THEN [section |-> config.github[1], usedDefault |-> FALSE]
  ELSE [section |-> [maxRepos |-> 500, includeOrgRepos |-> TRUE],
        usedDefault |-> TRUE]

CfgLoad ==
  /\ cfgNextId <= MaxLoads
  /\ \E r \in {LoadSkillsConfig(cachedConfig, cfgCustomPath, cfgFiles, cfgNextId)} :
       /\ cachedConfig' = r.cachedConfig
       /\ cfgNextId' = r.nextId
       /\ cfgPrev' = IF r.threw THEN cfgPrev ELSE r.value
       /\ cfgLast' = [op |-> "load", cachedBefore |-> cachedConfig,
                      prev |-> cfgPrev, threw |-> r.threw, value |-> r.value,
                      reads |-> r.reads, section |-> Undefined,
                      usedDefault |-> FALSE]
  /\ UNCHANGED <<cfgCustomPath, cfgFiles, cfgOthers>>

\* clearConfigCache()
CfgClear ==
  /\ cfgLast.op # "clear"
  /\ cachedConfig' = Undefined
  /\ cfgLast' = [op |-> "clear", cachedBefore |-> cachedConfig,
                 prev |-> cfgPrev, threw |-> FALSE, value |-> Undefined,
                 reads |-> <<>>, section |-> Undefined, usedDefault |-> FALSE]
  /\ UNCHANGED <<cfgCustomPath, cfgFiles, cfgNextId, cfgPrev, cfgOthers>>

\* getGitHubConfig(), as GitHubScraper calls it: load, then pick the section
CfgGetGitHubConfig ==
  /\ cfgNextId <= MaxLoads
  /\ \E r \in {LoadSkillsConfig(cachedConfig, cfgCustomPath, cfgFiles, cfgNextId)} :
       /\ cachedConfig' = r.cachedConfig
       /\ cfgNextId' = r.nextId
       /\ cfgPrev' = IF r.threw THEN cfgPrev ELSE r.value
       /\ \E g \in {IF r.threw THEN [section |-> Undefined, usedDefault |-> FALSE]
                    ELSE LET s == GetGitHubConfig(r.value[1].content)
                         IN  [section |-> Given(s.section),
                              usedDefault |-> s.usedDefault]} :
            cfgLast' = [op |-> "github", cachedBefore |-> cachedConfig,
                        prev |-> cfgPrev, threw |-> r.threw, value |-> r.value,
                        reads |-> r.reads, section |-> g.section,
                        usedDefault |-> g.usedDefault]
  /\ UNCHANGED <<cfgCustomPath, cfgFiles, cfgOthers>>

CfgIdle ==
  /\ cfgCustomPath = Undefined
  /\ cfgFiles = <<>>
  /\ cachedConfig = Undefined
  /\ cfgNextId = 1
  /\ cfgPrev = Undefined
  /\ cfgLast = <<>>

\* the first candidate path at which a file exists, 0 when there is none
CfgFound ==
  LET paths == ConfigPaths(cfgCustomPath)
      there == {i \in DOMAIN paths : cfgFiles[paths[i]].exists}
  IN  IF there = {} THEN 0 ELSE CHOOSE i \in there : \A j \in there : i <= j

\* C21: a configuration that is absent, or whose found file does not parse
\* or lacks a section, makes the call fail; no call ever answers from a
\* file at a later location or from built-in default values.
C21_MissingOrMalformedConfigIsFatal ==
  (cfgLast.op \in {"load", "github"} /\ cfgLast.cachedBefore = Undefined) =>
    LET paths == ConfigPaths(cfgCustomPath)
        file == cfgFiles[paths[CfgFound]]
    IN  /\ ~cfgLast.usedDefault
        /\ (CfgFound = 0 \/ file.json = Undefined
              \/ file.json[1].github = Undefined) => cfgLast.threw
        /\ ~cfgLast.threw => cfgLast.reads = <<paths[CfgFound]>>

\* C22: a call made while a configuration is cached returns that very
\* object and reads no file; a call made with an empty cache that succeeds
\* reads a file, caches what it returns, and returns an object that is new
\* and equal in content to the one returned before the cache was cleared;
\* a call that fails leaves the cache empty.
C22_CachedUntilCleared ==
  cfgLast.op = "load" =>
    /\ cfgLast.cachedBefore # Undefined =>
         /\ ~cfgLast.threw
         /\ cfgLast.value = cfgLast.cachedBefore
         /\ cfgLast.reads = <<>>
         /\ cachedConfig = cfgLast.cachedBefore
    /\ (cfgLast.cachedBefore = Undefined /\ ~cfgLast.threw) =>
         /\ cfgLast.reads # <<>>
         /\ cachedConfig = cfgLast.value
         /\ cfgLast.prev # Undefined =>
              /\ cfgLast.value[1].id # cfgLast.prev[1].id
              /\ cfgLast.value[1].content = cfgLast.prev[1].content
    /\ cfgLast.threw => cachedConfig = Undefined

C22_Witness ==
  /\ cfgLast.op = "load"
  /\ cfgLast.cachedBefore # Undefined
  /\ cfgLast.value[1].id = 2

\* C23: every term in the matchedTerms of a MatchedSkill that
\* matchTechnologies collects or returns is at least two characters long.
C23_MatchedTermsAtLeastTwoChars ==
  /\ \A i \in DOMAIN mtSkillScores :
       \A t \in Range(mtSkillScores[i].terms) : Len(t) >= 2
  /\ \A i \in DOMAIN mtResult :
       \A t \in Range(mtResult[i].matchedTerms) : Len(t) >= 2

\* C23 witness: a finished run whose table held a one-character term while
\* the client's cache held a skill under that very key, and which returned
\* a match for another term.
C23_Witness ==
  /\ mtPc = "done"
  /\ mtResult # <<>>
  /\ \E i \in DOMAIN mtTechCounts :
       /\ Len(mtTechCounts[i][1]) = 1
       /\ \E k \in DOMAIN mtSkillCache :
            mtSkillCache[k][1] = ToLowerCase(mtTechCounts[i][1])

\* C25: the pull-request score of a scored skill is the fixed baseline 20
\* when the corpus holds no pull request at all, and with at least one pull
\* request it is the capped sum of the match-fraction term, the merge-rate
\* term over the matching pull requests and the volume bonus, with no
\* baseline added: a function of the number of matching pull requests, the
\* number of merged matching ones and the total number alone.
C25_PRScoreBaselineOnlyWithoutPRs ==
  ScScoredReady =>
    \A i \in DOMAIN scScored :
      LET terms == AllTerms(scMatched[i])
          matching ==
            SelectSeq(scData.pullRequests,
                      LAMBDA pr : \E t \in DOMAIN terms :
                                    HasBoundedOccurrenceFrom(PRText(pr), terms[t], 0))
          total == Len(scData.pullRequests)
          relevant == Len(matching)
          merged == Len(SelectSeq(matching, LAMBDA pr : pr.merged))
          mergeRate == IF relevant = 0 THEN RInt(0) ELSE Rat(merged * 40, relevant)
      IN  scScored[i].components.prScore
            = IF total = 0 THEN 20
              ELSE Min(RRound(RAdd(RAdd(Rat(relevant * 50, total), mergeRate),
                                   RInt(Min(relevant * 2, 10)))),
                       100)

\* a fixed ranking of the matched skills of the pool, to name one order
ScPoolRank ==
  CHOOSE f \in [MatchPool -> 1..Cardinality(MatchPool)] :
    \A a, b \in MatchPool : f[a] = f[b] => a = b

\* the reordering that puts the matched skills of the run in pool order
ScPoolOrder ==
  CHOOSE q \in [DOMAIN scMatched -> DOMAIN scMatched] :
    \A i, j \in DOMAIN scMatched :
      i < j => ScPoolRank[scMatched[q[i]]] < ScPoolRank[scMatched[q[j]]]

\* C26: scoring has no ordering dependency: whatever the order of the matched
\* skills in the run, scoreSkills gives each skill the score, components and
\* evidence it gives it when the same skills are scored in one fixed order;
\* every order being a run, the results of all orders agree skill for skill.
C26_ScoringIndependentOfOrder ==
  scPc = "rank" =>
    ScoreSkills([i \in DOMAIN scMatched |-> scMatched[ScPoolOrder[i]]],
                scData, scConfig)
      = [i \in DOMAIN scMatched |-> scScored[ScPoolOrder[i]]]

\* C26 witness: two skills scored in the order opposite to the fixed one,
\* with different scores, one of them with evidence.
C26_Witness ==
  /\ scPc = "rank"
  /\ Len(scMatched) = 2
  /\ ScPoolOrder = <<2, 1>>
  /\ scScored[1].score # scScored[2].score
  /\ scScored[1].evidence # <<>>
  /\ scMatched[1].rawScore # scMatched[2].rawScore

\* C27: isWholeWordMatch terminates for every text and word, the empty word
\* and a text ending in an alphanumeric character included: the loop body
\* never runs more than Len(text) + 1 times.
C27_WholeWordTerminatesWithinBound == wwIter <= Len(text) + 1

\* C28: every search of a term follows the fixed order: a term whose
\* lowercased form is a key of the local cache is answered with that one
\* cached skill and no remote call; any other term calls autocomplete first
\* and fuzzy matching only when autocomplete returned no result; and when
\* autocomplete returned a skill whose lowercased name equals the query, that
\* skill alone is the result.
C28_CacheThenAutocompleteThenFuzzy ==
  \A k \in DOMAIN mtLookups :
    LET l == mtLookups[k]
        queryLower == ToLowerCase(l.searchTerm)
        hit == {i \in DOMAIN l.cacheBefore : l.cacheBefore[i][1] = queryLower}
        endpoints == [c \in DOMAIN l.calls |-> l.calls[c][1]]
        answer == IF l.searchTerm \in mtFailing THEN <<>>
                  ELSE Take(RemoteResponse("autocomplete", l.searchTerm, mtCatalog), 5)
        exact == {i \in DOMAIN answer : ToLowerCase(answer[i].name) = queryLower}
    IN  IF hit # {}
        THEN /\ l.calls = <<>>
             /\ \E i \in hit : l.results = <<l.cacheBefore[i][2]>>
        ELSE /\ endpoints \in {<<"autocomplete">>, <<"autocomplete", "fuzzymatch">>}
             /\ Len(endpoints) = 2 <=> answer = <<>>
             /\ exact # {} => \E i \in exact : l.results = <<answer[i]>>
             /\ (answer # <<>> /\ exact = {}) => l.results = answer

\* C28 witness: a first term answered by autocomplete with several skills of
\* which the one named like the query was returned alone, and a second term
\* answered from the cache.
C28_Witness ==
  /\ Len(mtLookups) = 2
  /\ Len(mtLookups[1].calls) = 1
  /\ Len(Take(RemoteResponse("autocomplete", mtLookups[1].searchTerm, mtCatalog), 5)) > 1
  /\ Len(mtLookups[1].results) = 1
  /\ mtLookups[2].calls = <<>>
  /\ Len(mtLookups[2].results) = 1

----------------------------------------------------------------------------
(* GitHubScraper.scrape (src/src/github/scraper.ts) with RepoAnalyzer      *)
(* (src/unnamed/part_000), GitHubClient.paginateRepos and the progress     *)
(* record of Cache.  A repository is its full name; scrRun is the memory   *)
(* of the running process (collectedData.repos, the repos array of the     *)
(* phase, processedRepos and the loop positions), scrProgress the record   *)
(* on disk, which alone survives an interruption.                          *)

\* longest listing of the user's repositories
MaxListing == 2

\* number of times the command is started
MaxRuns == 2

\* paginateRepos({ maxRepos }): the first maxRepos repositories listed
PaginateRepos(listing, maxRepos) == Take(listing, maxRepos)

\* paginateOrgRepos(org, { maxRepos }), taken to page as paginateRepos does
PaginateOrgRepos(listing, maxRepos) == Take(listing, maxRepos)

\* Math.ceil(maxRepos / orgs.length)
ReposPerOrg(maxRepos, orgs) == (maxRepos + Len(orgs) - 1) \div Len(orgs)

\* cache.hasProgress()
HasProgress(progress) ==
  progress # Undefined /\ progress[1].processedRepos # {}

\* createEmptyCollectedData() and new Set()
EmptyRun ==
  [collected |-> <<>>, repos |-> <<>>, processed |-> {}, i |-> 0,
   org |-> 1, j |-> 0, totalOrgRepos |-> 0]

\* the head of scrape(): the saved progress when resuming, else a fresh start
StartRun(resume, progress) ==
  IF resume /\ HasProgress(progress)
  THEN [EmptyRun EXCEPT !.collected = progress[1].repos,
                        !.processed = progress[1].processedRepos]
  ELSE EmptyRun

\* the loop body without the test of processedRepos
UserRepoStepNoSkip(run, listing, maxRepos) ==
  LET fullName == PaginateRepos(listing, maxRepos)[run.i + 1]
      repos == Append(run.repos, fullName)
      processed == run.processed \cup {fullName}
  IN  [run |-> [run EXCEPT !.repos = repos, !.processed = processed,
                           !.i = @ + 1],
       name |-> fullName,
       analyzed |-> TRUE,
       saved |-> Given([processedRepos |-> processed,
                        repos |-> run.collected \o repos])]

\* One pass of the loop of analyzeRepositories over analyzeRepos: a
\* repository already processed is skipped; any other is analyzed, added to
\* repos and to processedRepos, and the progress is saved.
UserRepoStep(run, listing, maxRepos) ==
  LET fullName == PaginateRepos(listing, maxRepos)[run.i + 1]
      repos == Append(run.repos, fullName)
      processed == run.processed \cup {fullName}
  IN  IF fullName \in run.processed
      THEN [run |-> [run EXCEPT !.i = @ + 1], name |-> fullName,
            analyzed |-> FALSE, saved |-> Undefined]
      ELSE [run |-> [run EXCEPT !.repos = repos, !.processed = processed,
                                !.i = @ + 1],
            name |-> fullName,
            analyzed |-> TRUE,
            saved |-> Given([processedRepos |-> processed,
                             repos |-> run.collected \o repos])]

\* the loops of analyzeOrgRepositories have ended
OrgDone(run, orgs, maxRepos) ==
  \/ run.org > Len(orgs)
  \/ run.j = 0 /\ run.totalOrgRepos >= maxRepos

\* One pass of the loops of analyzeOrgRepositories: the next organization
\* when the current one is exhausted or the limit is met, a skip of a
\* processed repository, or the analysis of a new one.
OrgRepoStep(run, orgs, maxRepos) ==
  LET yielded == PaginateOrgRepos(orgs[run.org], ReposPerOrg(maxRepos, orgs))
      fullName == yielded[run.j + 1]
  IN  IF run.j = Len(yielded)
        THEN [run |-> [run EXCEPT !.org = @ + 1, !.j = 0], name |-> "",
              analyzed |-> FALSE]
      ELSE IF fullName \in run.processed
        THEN [run |-> [run EXCEPT !.j = @ + 1], name |-> fullName,
              analyzed |-> FALSE]
      ELSE IF run.totalOrgRepos >= maxRepos
        THEN [run |-> [run EXCEPT !.org = @ + 1, !.j = 0], name |-> "",
              analyzed |-> FALSE]
      ELSE [run |-> [run EXCEPT !.repos = Append(@, fullName),
                                !.processed = @ \cup {fullName},
                                !.totalOrgRepos = @ + 1, !.j = @ + 1],
            name |-> fullName, analyzed |-> TRUE]

\* the command is started, with or without --resume
ScrStart ==
  /\ scrPc \in {"idle", "stopped", "done"}
  /\ scrRuns < MaxRuns
  /\ \E resume \in BOOLEAN :
       /\ scrRun' = StartRun(resume, scrProgress)
       /\ scrLog' = [op |-> "start", name |-> "", wasProcessed |-> FALSE,
                     resumed |-> resume /\ HasProgress(scrProgress)]
  /\ scrRuns' = scrRuns + 1
  /\ scrPc' = "user"
  /\ UNCHANGED <<scrListing, scrOrgs, scrMaxRepos, scrProgress, scrOthers>>

ScrUserRepo ==
  /\ scrPc = "user"
  /\ scrRun.i < Len(PaginateRepos(scrListing, scrMaxRepos))
  /\ \E r \in {UserRepoStep(scrRun, scrListing, scrMaxRepos)} :
       /\ scrRun' = r.run
       /\ scrProgress' = IF r.saved = Undefined THEN scrProgress ELSE r.saved
       /\ scrLog' = [scrLog EXCEPT
                       !.op = IF r.analyzed THEN "analyze" ELSE "skip",
                       !.name = r.name,
                       !.wasProcessed = r.name \in scrRun.processed]
  /\ UNCHANGED <<scrListing, scrOrgs, scrMaxRepos, scrRuns, scrPc, scrOthers>>

\* analyzeRepositories returns; scrape() appends its repos to collectedData
ScrUserDone ==
  /\ scrPc = "user"
  /\ scrRun.i = Len(PaginateRepos(scrListing, scrMaxRepos))
  /\ scrRun' = [scrRun EXCEPT !.collected = @ \o scrRun.repos, !.repos = <<>>]
  /\ scrLog' = [scrLog EXCEPT !.op = "merge"]
  /\ scrPc' = "org"
  /\ UNCHANGED <<scrListing, scrOrgs, scrMaxRepos, scrProgress, scrRuns, scrOthers>>

ScrOrgRepo ==
  /\ scrPc = "org"
  /\ ~OrgDone(scrRun, scrOrgs, scrMaxRepos)
  /\ \E r \in {OrgRepoStep(scrRun, scrOrgs, scrMaxRepos)} :
       /\ scrRun' = r.run
       /\ scrLog' = [scrLog EXCEPT
                       !.op = IF r.analyzed THEN "analyze" ELSE "skip",
                       !.name = r.name,
                       !.wasProcessed = r.name \in scrRun.processed]
  /\ UNCHANGED <<scrListing, scrOrgs, scrMaxRepos, scrProgress, scrRuns, scrPc,
                 scrOthers>>

\* the tail of scrape(): the organization repos are appended, the saved
\* progress is cleared and the data returned
ScrFinish ==
  /\ scrPc = "org"
  /\ OrgDone(scrRun, scrOrgs, scrMaxRepos)
  /\ scrRun' = [scrRun EXCEPT !.collected = @ \o scrRun.repos, !.repos = <<>>]
  /\ scrProgress' = Undefined
  /\ scrLog' = [scrLog EXCEPT !.op = "clear"]
  /\ scrPc' = "done"
  /\ UNCHANGED <<scrListing, scrOrgs, scrMaxRepos, scrRuns, scrOthers>>

\* the process is interrupted: its memory is lost, the saved progress stays
ScrInterrupt ==
  /\ scrPc \in {"user", "org"}
  /\ scrRun' = EmptyRun
  /\ scrLog' = [scrLog EXCEPT !.op = "interrupt"]
  /\ scrPc' = "stopped"
  /\ UNCHANGED <<scrListing, scrOrgs, scrMaxRepos, scrProgress, scrRuns, scrOthers>>

ScrIdle ==
  /\ scrListing = <<>>
  /\ scrOrgs = <<>>
  /\ scrMaxRepos = 0
  /\ scrProgress = Undefined
  /\ scrRun = <<>>
  /\ scrRuns = 0
  /\ scrLog = <<>>
  /\ scrPc = "off"

\* C24: the repositories in the data of a run (restored from the saved
\* progress, the user's and the organizations') never exceed maxRepos.
C24_TotalReposWithinMaxRepos ==
  Len(scrRun.collected) + Len(scrRun.repos) <= scrMaxRepos

\* no repository is named twice in a list
ScrNoDuplicates(repos) ==
  \A i, j \in DOMAIN repos : repos[i] = repos[j] => i = j

\* C29: across interrupted and resumed runs a repository appears at most
\* once in the collected data: the saved progress names in processedRepos
\* exactly the repositories it holds, each once; a repository in
\* processedRepos is never analyzed again; and the saved progress is cleared
\* only by a run that completes.
C29_EachRepoCollectedOnce ==
  /\ ScrNoDuplicates(scrRun.collected \o scrRun.repos)
  /\ scrProgress # Undefined =>
       /\ scrProgress[1].processedRepos
            = {scrProgress[1].repos[i] : i \in DOMAIN scrProgress[1].repos}
       /\ ScrNoDuplicates(scrProgress[1].repos)
  /\ scrLog.op = "analyze" => ~scrLog.wasProcessed
  /\ scrLog.op = "clear" => scrPc = "done"

\* C29 witness: a second run that resumed from the progress of an
\* interrupted first one and completed with two repositories, after
\* skipping the restored one.
C29_Witness ==
  /\ scrRuns = 2
  /\ scrPc = "done"
  /\ scrLog.resumed
  /\ Len(scrRun.collected) = 2
  /\ Len(scrListing) = 2

----------------------------------------------------------------------------
(* GitHubOAuth.pollForToken (src/unnamed/part_010).  Time is counted in    *)
(* seconds; a poll is the sleep of one interval followed by the request,   *)
(* and the server or the network chooses the response.                     *)

\* longest life of a device code, in seconds
MaxExpiresIn == 20

\* what one request can come back with: a token, one of the error codes of
\* the device flow, another error code, or a failure of fetch itself
OaResponses ==
  {"access_token", "authorization_pending", "slow_down", "expired_token",
   "access_denied", "unsupported_grant_type", "network_error"}

\* The body of the try block and the catch after it, for one response: the
\* function returns, throws, or goes round the loop again. An Error thrown
\* inside the try block is rethrown by the catch only when its message
\* contains 'OAuth error'.
PollResponse(response, interval) ==
  LET thrown ==
        CASE response = "network_error" -> Given("fetch failed")
          [] response = "expired_token" ->
               Given("Authorization request expired. Please try again.")
          [] response = "access_denied" ->
               Given("Authorization was denied by the user.")
          [] response = "unsupported_grant_type" ->
               Given("OAuth error: unsupported_grant_type")
          [] OTHER -> Undefined
      rethrown == thrown # Undefined
                    /\ thrown[1] = "OAuth error: unsupported_grant_type"
  IN  IF response = "access_token"
        THEN [pc |-> "returned", interval |-> interval, error |-> Undefined]
      ELSE IF response = "slow_down"
        THEN [pc |-> "poll", interval |-> interval + 5, error |-> Undefined]
      ELSE IF rethrown
        THEN [pc |-> "failed", interval |-> interval, error |-> thrown]
      ELSE [pc |-> "poll", interval |-> interval, error |-> Undefined]

\* while (Date.now() < expiresAt) { await sleep(interval); ... }
OaPoll ==
  /\ oaPc = "poll"
  /\ oaNow < oaExpiresAt
  /\ \E response \in OaResponses :
       \E r \in {PollResponse(response, oaInterval)} :
         /\ oaNow' = oaNow + oaInterval
         /\ oaInterval' = r.interval
         /\ oaLast' = [response |-> response, intervalBefore |-> oaInterval]
         /\ oaError' = r.error
         /\ oaPc' = r.pc
  /\ UNCHANGED <<oaExpiresAt, oaOthers>>

\* the loop condition fails: 'Authorization request timed out'
OaTimeout ==
  /\ oaPc = "poll"
  /\ oaNow >= oaExpiresAt
  /\ oaError' = Given("Authorization request timed out. Please try again.")
  /\ oaPc' = "failed"
  /\ UNCHANGED <<oaNow, oaExpiresAt, oaInterval, oaLast, oaOthers>>

OaIdle ==
  /\ oaNow = 0
  /\ oaExpiresAt = 0
  /\ oaInterval = 0
  /\ oaLast = <<>>
  /\ oaError = Undefined
  /\ oaPc = "off"

\* C30: polling stops and fails as soon as the response is access_denied or
\* expired_token; it goes on only after authorization_pending, slow_down
\* (with five seconds added to the interval) or a network error; and it has
\* ended by the time the device code expires.
C30_PollingStopsOnDenialOrExpiry ==
  /\ oaLast.response \in {"access_denied", "expired_token"} => oaPc = "failed"
  /\ (oaPc = "poll" /\ oaLast.response # "none") =>
       /\ oaLast.response
            \in {"authorization_pending", "slow_down", "network_error"}
       /\ oaInterval = oaLast.intervalBefore
                         + (IF oaLast.response = "slow_down" THEN 5 ELSE 0)
  /\ oaNow > oaExpiresAt => oaPc \in {"returned", "failed"}

----------------------------------------------------------------------------
(* Specifications, one per component *)

InitWholeWord ==
  /\ \E in \in WWInputs : text = in[1] /\ word = in[2]
  /\ index = 0
  /\ wwIter = 0
  /\ wwPc = "loop"
  /\ wwResult = FALSE
  /\ TopIdle
  /\ EvIdle
  /\ ScIdle
  /\ ExIdle
  /\ MtIdle
  /\ CfgIdle
  /\ ScrIdle
  /\ OaIdle

SpecWholeWord == InitWholeWord /\ [][WWNext]_vars

InitTop ==
  /\ topSkills \in TopShortLists \cup TopLongLists
  /\ topLimit \in {Undefined} \cup {Given(n) : n \in {0, 1, 2, 10}}
  /\ topThreshold \in {15, 30}
  /\ topResult = <<>>
  /\ topPc = "call"
  /\ WWIdle
  /\ EvIdle
  /\ ScIdle
  /\ ExIdle
  /\ MtIdle
  /\ CfgIdle
  /\ ScrIdle
  /\ OaIdle

SpecTop == InitTop /\ [][TopCall]_vars

InitEvidence ==
  /\ evTerms \in TermLists
  /\ evData \in Corpora
  /\ evMax \in {Undefined} \cup {Given(n) : n \in 1..MaxEvidenceArg}
  /\ evLimits \in {EvidenceLimitsDefault,
                    [maxPerSkill |-> 3, repoLimit |-> 2, prLimit |-> 1,
                     commitLimit |-> 1, starLimit |-> 1]}
  /\ evSub = <<>>
  /\ evResult = <<>>
  /\ evPc = "call"
  /\ WWIdle
  /\ TopIdle
  /\ ScIdle
  /\ ExIdle
  /\ MtIdle
  /\ CfgIdle
  /\ ScrIdle
  /\ OaIdle

SpecEvidence == InitEvidence /\ [][EvCollect]_vars

InitScore ==
  /\ scMatched \in MatchedLists
  /\ scData \in ScoreCorpora
  /\ scConfig \in ScoreConfigs
  /\ scScored = <<>>
  /\ scTop = <<>>
  /\ scPc = "score"
  /\ WWIdle
  /\ TopIdle
  /\ EvIdle
  /\ ExIdle
  /\ MtIdle
  /\ CfgIdle
  /\ ScrIdle
  /\ OaIdle

SpecScore == InitScore /\ [][ScNext]_vars

\* scoring runs over the empty and the fullest repository lists under the
\* mixed weights, for the comparison of scoring orders
InitScoreOrder ==
  /\ InitScore
  /\ Len(scData.repos) \in {0, 3}
  /\ scConfig.weights.language = 40

SpecScoreOrder == InitScoreOrder /\ [][ScNext]_vars

InitExtract ==
  /\ exData \in ExtractCorpora
  /\ exSkillNames \in {Undefined, Given(<<Str.reactName, Str.javaLang>>)}
  /\ exTechCounts = <<>>
  /\ exAt = ExtractStart
  /\ exPc = "run"
  /\ WWIdle
  /\ TopIdle
  /\ EvIdle
  /\ ScIdle
  /\ MtIdle
  /\ CfgIdle
  /\ ScrIdle
  /\ OaIdle

SpecExtract == InitExtract /\ [][ExNext]_vars

InitMatch ==
  /\ mtTechCounts \in
       {t \in SeqsUpTo({Str.js, Str.jsUpper, Str.javascript, Str.javaScript,
                        Str.javaTopic, Str.reactjs, Str.mysql, Str.a} \X {1, 2},
                       MaxTable) :
          \A i, j \in DOMAIN t : i # j => t[i][1] # t[j][1]}
  /\ mtCatalog \in {Catalog, SelectSeq(Catalog, LAMBDA s : s.id # 1),
                    Append(Catalog, [id |-> 8, name |-> Str.aName])}
  /\ mtFailing \in SUBSET {ExpandTerm(mtTechCounts[i][1]) : i \in DOMAIN mtTechCounts}
  /\ mtAt = 0
  /\ mtSkillScores = <<>>
  /\ mtSkillCache = <<>>
  /\ mtLookups = <<>>
  /\ mtInferred = <<>>
  /\ mtInferScores = <<>>
  /\ mtInferAt = <<0, 0>>
  /\ mtResult = <<>>
  /\ mtPc = "run"
  /\ WWIdle
  /\ TopIdle
  /\ EvIdle
  /\ ScIdle
  /\ ExIdle
  /\ CfgIdle
  /\ ScrIdle
  /\ OaIdle

SpecMatch == InitMatch /\ [][MtNext]_vars

SpecInfer == InitMatch /\ [][MtTerm \/ MtInfer \/ MtInferReturn]_vars

InitConfig ==
  /\ cfgCustomPath \in {Undefined, Given("custom")}
  /\ cfgFiles \in
       LET full == [github |-> Given([maxRepos |-> 50, includeOrgRepos |-> FALSE])]
           bare == [github |-> Undefined]
           kinds == {[exists |-> FALSE, json |-> Undefined],
                     [exists |-> TRUE, json |-> Undefined],
                     [exists |-> TRUE, json |-> Given(full)],
                     [exists |-> TRUE, json |-> Given(bare)]}
       IN  {f \in [{"custom", "cwd", "dist", "src"} -> kinds] :
              cfgCustomPath = Undefined => ~f["custom"].exists}
  /\ cachedConfig = Undefined
  /\ cfgNextId = 1
  /\ cfgPrev = Undefined
  /\ cfgLast = [op |-> "none", cachedBefore |-> Undefined, prev |-> Undefined,
                threw |-> FALSE, value |-> Undefined, reads |-> <<>>,
                section |-> Undefined, usedDefault |-> FALSE]
  /\ WWIdle
  /\ TopIdle
  /\ EvIdle
  /\ ScIdle
  /\ ExIdle
  /\ MtIdle
  /\ ScrIdle
  /\ OaIdle

SpecConfig == InitConfig /\ [][CfgLoad \/ CfgClear \/ CfgGetGitHubConfig]_vars

InitScrape ==
  /\ scrListing \in
       UNION {[1..k -> {"user/app", "user/api", "org/lib"}] : k \in 0..MaxListing}
  /\ scrOrgs \in {<<>>, << <<"org/lib">> >>, << <<"org/lib", "org/sdk">> >>,
                  << <<"org/lib">>, <<"org2/web">> >>}
  /\ scrMaxRepos \in {1, 2}
  /\ scrProgress = Undefined
  /\ scrRun = EmptyRun
  /\ scrRuns = 0
  /\ scrLog = [op |-> "none", name |-> "", wasProcessed |-> FALSE,
               resumed |-> FALSE]
  /\ scrPc = "idle"
  /\ WWIdle
  /\ TopIdle
  /\ EvIdle
  /\ ScIdle
  /\ ExIdle
  /\ MtIdle
  /\ CfgIdle
  /\ OaIdle

SpecScrape ==
  InitScrape
    /\ [][ScrStart \/ ScrUserRepo \/ ScrUserDone \/ ScrOrgRepo \/ ScrFinish
            \/ ScrInterrupt]_vars

InitOAuth ==
  /\ oaNow = 0
  /\ oaExpiresAt \in {MaxExpiresIn - 10, MaxExpiresIn - 5, MaxExpiresIn}
  /\ oaInterval \in {1, 5}
  /\ oaLast = [response |-> "none", intervalBefore |-> 0]
  /\ oaError = Undefined
  /\ oaPc = "poll"
  /\ WWIdle
  /\ TopIdle
  /\ EvIdle
  /\ ScIdle
  /\ ExIdle
  /\ MtIdle
  /\ CfgIdle
  /\ ScrIdle

SpecOAuth == InitOAuth /\ [][OaPoll \/ OaTimeout]_vars

====
